---- MODULE Spec2Model ----
(***************************************************************************)
(* A model of xarray_events.EventsAccessor                                 *)
(* (src/src/xarray_events/EventsAccessor.py): the accessor holds a Dataset *)
(* (self._ds) whose attribute bag carries the events DataFrame (_events)   *)
(* and the Dataset-to-DataFrame mapping (_ds_df_mapping).                  *)
(*                                                                         *)
(* Conventions.  A DataFrame is a sequence of rows, each row a record with *)
(* its row label (Index) and its columns.  A dimension of the Dataset is a *)
(* sequence of coordinate values.  An optional value (a cell that may be   *)
(* NaN) is a sequence of length 0 or 1.  Python positions are 0-based and  *)
(* are kept 0-based wherever the code stores them.                         *)
(***************************************************************************)
EXTENDS Integers, Sequences, FiniteSets, TLC

VARIABLES
    ds,          \* self._ds: the dimensions of the Dataset held by the accessor
    has_events,  \* '_events' in self._ds.attrs
    df,          \* self._ds.attrs['_events']
    mapping,     \* self._ds.attrs['_ds_df_mapping'], a sequence of <<key, value>>
    op,          \* the public method called last
    result,      \* what it returned: "None", "True", "False", "Dataset", "GroupBy"
    err,         \* the exception it raised, "none" when it returned
    groups,      \* the GroupBy object returned by groupby_events
    args,        \* the arguments of the last call
    df_pre,      \* the events DataFrame when the last method was called
    ds_pre,      \* the Dataset the accessor held when it was called
    index_name,  \* self.df.index.name, "" for None
    array,       \* the DataArray returned by expand_to_match_ds
    warned,      \* the attributes the last call warned about (warnings.warn)
    err_args,    \* the keys the exception of the last call lists
    entry,       \* what duration_mapping returned: <<>> for None, <<entry>>
    warnings_ignored  \* warnings.filterwarnings('ignore') is in force

vars ==
    <<ds, has_events, df, mapping, op, result, err, groups, args, df_pre, ds_pre,
      index_name, array, warned, err_args, entry, warnings_ignored>>

----------------------------------------------------------------------------
(* Bounds of the model.                                                    *)

\* Largest coordinate value of the mapped dimension.
MaxVal == 3

\* Largest number of rows in an events DataFrame given to load.
MaxEvents == 2

\* Selections: the largest start_frame of an event, and the largest number of
\* rows of the events DataFrame.
MaxSelVal == 2
MaxSelRows == 2

----------------------------------------------------------------------------
(* Generic helpers on sequences.                                           *)

Range(s) == {s[i] : i \in 1..Len(s)}

RECURSIVE Flatten(_)
Flatten(ss) == IF ss = <<>> THEN <<>> ELSE Head(ss) \o Flatten(Tail(ss))

HasDuplicates(s) == \E i, j \in 1..Len(s) : i < j /\ s[i] = s[j]

\* list.index(v), 1-based; 0 stands for the ValueError of a missing value.
ListIndex(values, v) ==
    IF \E i \in 1..Len(values) : values[i] = v
    THEN CHOOSE i \in 1..Len(values) :
            values[i] = v /\ \A j \in 1..(i - 1) : values[j] # v
    ELSE 0

\* range(a, b + 1) as a sequence of integers.
PyRange(a, b) == [i \in 1..(IF b >= a THEN b - a + 1 ELSE 0) |-> a + i - 1]

\* DataFrame.sort_values(col): rows in ascending order of col, ties in row order.
RECURSIVE InsertSorted(_, _, _)
InsertSorted(r, s, col) ==
    IF s = <<>> THEN <<r>>
    ELSE IF r[col] < Head(s)[col] THEN <<r>> \o s
    ELSE <<Head(s)>> \o InsertSorted(r, Tail(s), col)

RECURSIVE sort_values(_, _)
sort_values(rows, col) ==
    IF rows = <<>> THEN <<>>
    ELSE InsertSorted(rows[Len(rows)], sort_values(SubSeq(rows, 1, Len(rows) - 1), col), col)

\* DataFrame.reset_index(drop=True): row labels 0, 1, 2, ...
reset_index(rows) == [i \in 1..Len(rows) |-> [rows[i] EXCEPT !.Index = i - 1]]

----------------------------------------------------------------------------
(* The Dimension Mapping.                                                  *)

\* The values of the mapping: a column name, a tuple of two column names, a
\* list of such values.
MapCol(c) == [kind |-> "col", cols |-> <<c>>, items |-> <<>>]
MapTuple(a, b) == [kind |-> "tuple", cols |-> <<a, b>>, items |-> <<>>]
MapList(items) == [kind |-> "list", cols |-> <<>>, items |-> items]

\* {'frame': ('start_frame', 'end_frame')}
DurationMapping == << <<"frame", MapTuple("start_frame", "end_frame")>> >>

\* Mutant: a tuple inside a list counts as a duration too.
mappings_with_durations_nested(m) ==
    LET pairs(e) == SelectSeq(e[2].items, LAMBDA x : x.kind = "tuple")
        found == SelectSeq(m, LAMBDA e :
                    e[2].kind = "tuple" \/ (e[2].kind = "list" /\ pairs(e) # <<>>))
    IN  [i \in 1..Len(found) |->
            IF found[i][2].kind = "tuple" THEN found[i]
            ELSE <<found[i][1], pairs(found[i])[1]>>]

\* duration_mapping: the entries whose value is a tuple.
mappings_with_durations(m) == SelectSeq(m, LAMBDA e : e[2].kind = "tuple")

\* Mutant: the first of several tuples is taken for the duration.
duration_mapping_outcome_first(m) ==
    IF mappings_with_durations(m) = <<>> THEN "None" ELSE "entry"

\* Mutant: anything but one tuple is a ValueError.
duration_mapping_outcome_strict(m) ==
    IF Len(mappings_with_durations(m)) # 1 THEN "ValueError" ELSE "entry"

\* duration_mapping returns None / raises ValueError / returns the entry.
duration_mapping_outcome(m) ==
    IF mappings_with_durations(m) = <<>> THEN "None"
    ELSE IF Len(mappings_with_durations(m)) > 1 THEN "ValueError"
    ELSE "entry"

duration_mapping(m) == mappings_with_durations(m)[1]

duration_dim(m) == duration_mapping(m)[1]
duration_start(m) == duration_mapping(m)[2].cols[1]
duration_end(m) == duration_mapping(m)[2].cols[2]

----------------------------------------------------------------------------
(* Slicing the mapped dimension by an event's duration.                    *)

\* Mutant: the slice stops before the position of end.
_slice_ds_by_duration_exclusive(values, start, end) ==
    SubSeq(values, ListIndex(values, start), ListIndex(values, end) - 1)

\* values[values.index(start):(values.index(end) + 1)]
_slice_ds_by_duration(values, start, end) ==
    SubSeq(values, ListIndex(values, start), ListIndex(values, end))

\* list(range(values.index(start), values.index(end) + 1)): 0-based positions.
_slice_ds_indexes_by_duration(values, start, end) ==
    PyRange(ListIndex(values, start) - 1, ListIndex(values, end) - 1)

\* values.index raises ValueError for some event bound.
SliceRaises(values, rows, m) ==
    \E i \in 1..Len(rows) :
        \/ ListIndex(values, rows[i][duration_start(m)]) = 0
        \/ ListIndex(values, rows[i][duration_end(m)]) = 0

\* The values spanned by the events, one slice after the other (fill_gaps'
\* df_values_range; df_contains_gaps takes the set of it).
df_values_range(values, rows, m) ==
    Flatten([i \in 1..Len(rows) |->
        _slice_ds_by_duration(values, rows[i][duration_start(m)], rows[i][duration_end(m)])])

----------------------------------------------------------------------------
(* The Coverage Analyzer.                                                  *)

\* The walk of df_contains_overlapping_events over the rows sorted by the
\* start column: the for loop and next(row_iterator, math.inf) draw from the
\* same iterator, so the loop body sees the rows two at a time; getattr on
\* the math.inf default raises AttributeError.
RECURSIVE overlap_walk(_, _, _, _)
overlap_walk(sorted, i, start, end) ==
    IF i > Len(sorted) THEN "False"
    ELSE IF i + 1 > Len(sorted) THEN "AttributeError"
    ELSE IF sorted[i + 1][start] - sorted[i][end] < 1 THEN "True"
    ELSE overlap_walk(sorted, i + 2, start, end)

\* df_contains_overlapping_events: "True", "False" or the exception raised.
df_contains_overlapping_events(rows, m) ==
    IF duration_mapping_outcome(m) = "None" THEN "TypeError"
    ELSE IF duration_mapping_outcome(m) = "ValueError" THEN "ValueError"
    ELSE overlap_walk(sort_values(rows, duration_start(m)), 1,
                      duration_start(m), duration_end(m))

\* df_contains_gaps: "True", "False" or the exception raised.
df_contains_gaps(values, rows, m) ==
    IF duration_mapping_outcome(m) = "None" THEN "TypeError"
    ELSE IF duration_mapping_outcome(m) = "ValueError" THEN "ValueError"
    ELSE IF SliceRaises(values, rows, m) THEN "ValueError"
    ELSE IF Range(values) # Range(df_values_range(values, rows, m)) THEN "True"
    ELSE "False"

----------------------------------------------------------------------------
(* The Gap Filler.                                                         *)

\* gap_series: reindexing the spanned values on the coordinate values.
\* DataFrame.reindex raises ValueError when the index it reindexes (the
\* sorted spanned values) holds a label twice.
gap_series_raises(values, spanned) == HasDuplicates(spanned) /\ values # <<>>

\* Mutant: the test of np.isnan is inverted.
is_gap_inverted(values, spanned, i) == values[i] \in Range(spanned)

\* gap_series[ds_val]: no spanned value equals the coordinate value.
is_gap(values, spanned, i) == values[i] \notin Range(spanned)

\* The loop over gap_series: the lists of consecutive gap values, then their
\* endpoints.  gap is the list being collected, gaps the lists completed.
RECURSIVE collect_gaps(_, _, _, _, _)
collect_gaps(values, spanned, i, gap, gaps) ==
    IF i > Len(values)
    THEN IF gap # <<>> THEN Append(gaps, gap) ELSE gaps
    ELSE IF ~is_gap(values, spanned, i)
    THEN collect_gaps(values, spanned, i + 1, <<>>,
                      IF gap # <<>> THEN Append(gaps, gap) ELSE gaps)
    ELSE collect_gaps(values, spanned, i + 1, Append(gap, values[i]), gaps)

\* Mutant: a gap ends where it starts.
gap_endpoints_first(values, spanned) ==
    LET gs == collect_gaps(values, spanned, 1, <<>>, <<>>)
    IN  [k \in 1..Len(gs) |-> <<gs[k][1], gs[k][1]>>]

gap_endpoints(values, spanned) ==
    LET gs == collect_gaps(values, spanned, 1, <<>>, <<>>)
    IN  [k \in 1..Len(gs) |-> <<gs[k][1], gs[k][Len(gs[k])]>>]

\* The columns of the events DataFrame given to load.
Columns == {"event_type", "start_frame", "end_frame"}

\* A cell without a value (NaN).
NaN == "NaN"

\* fill_gaps() with its defaults.
DefaultFillArgs ==
    [event_type_col_name |-> "event_type", event_type_col_value |-> "default",
     extra_col_val_pairs |-> <<>>]

\* A dict given as its items, as a function of its keys.
DictOf(pairs) ==
    [c \in {pairs[i][1] : i \in 1..Len(pairs)} |->
        pairs[CHOOSE i \in 1..Len(pairs) : pairs[i][1] = c][2]]

\* Mutant: the row of a gap carries the gap's first coordinate as its end.
gap_row_start_twice(gap, m, a) ==
    DictOf(a.extra_col_val_pairs)
        @@ (a.event_type_col_name :> a.event_type_col_value)
        @@ (duration_end(m) :> gap[1])
        @@ (duration_start(m) :> gap[1])

\* The pd.Series appended for one gap: {start: gap[0], end: gap[1],
\* event_type_col_name: event_type_col_value, **extra_col_val_pairs}, a later
\* key of the dict replacing an earlier one.
gap_row(gap, m, a) ==
    DictOf(a.extra_col_val_pairs)
        @@ (a.event_type_col_name :> a.event_type_col_value)
        @@ (duration_end(m) :> gap[2])
        @@ (duration_start(m) :> gap[1])

\* The columns of an events DataFrame.
frame_columns(rows) == IF rows = <<>> THEN Columns ELSE DOMAIN rows[1] \ {"Index"}

\* DataFrame.append(series, ignore_index=True): the columns are those of the
\* DataFrame and the keys of the Series it had not; a cell nobody gave is
\* NaN; the row labels are 0, 1, 2, ...
df_append(rows, series) ==
    LET cols == frame_columns(rows) \cup DOMAIN series
        widen(r, label) ==
            [c \in cols \cup {"Index"} |->
                IF c = "Index" THEN label ELSE IF c \in DOMAIN r THEN r[c] ELSE NaN]
    IN  [i \in 1..(Len(rows) + 1) |->
            IF i <= Len(rows) THEN widen(rows[i], i - 1) ELSE widen(series, Len(rows))]

\* The loop over gaps: append the row, then reset the row labels.
RECURSIVE append_gaps(_, _, _, _)
append_gaps(rows, gaps, m, a) ==
    IF gaps = <<>> THEN rows
    ELSE append_gaps(reset_index(df_append(rows, gap_row(Head(gaps), m, a))),
                     Tail(gaps), m, a)

\* fill_gaps: the exception it raises, "none" when it returns.
fill_gaps_err(values, rows, m) ==
    IF duration_mapping_outcome(m) = "None" THEN "TypeError"
    ELSE IF duration_mapping_outcome(m) = "ValueError" THEN "ValueError"
    ELSE IF SliceRaises(values, rows, m) THEN "ValueError"
    ELSE IF gap_series_raises(values, df_values_range(values, rows, m)) THEN "ValueError"
    ELSE "none"

\* fill_gaps: the events DataFrame it leaves.
fill_gaps_df(values, rows, m, a) ==
    IF fill_gaps_err(values, rows, m) # "none" THEN rows
    ELSE append_gaps(rows, gap_endpoints(values, df_values_range(values, rows, m)), m, a)

----------------------------------------------------------------------------
(* The Dimension Expander.                                                 *)

\* list.remove(x): the list without the first element equal to x.
ListRemove(s, x) ==
    IF ListIndex(s, x) = 0 THEN s
    ELSE SubSeq(s, 1, ListIndex(s, x) - 1) \o SubSeq(s, ListIndex(s, x) + 1, Len(s))

\* The first loop of _get_ds_from_df: the entries of a list value are
\* appended as entries of their own and the list entry is removed, while the
\* loop goes on over the list it is changing (i is the loop's position).
RECURSIVE expand_list_entries(_, _)
expand_list_entries(mp, i) ==
    IF i > Len(mp) THEN mp
    ELSE IF mp[i][2].kind = "list"
    THEN expand_list_entries(
            ListRemove(
                mp \o [k \in 1..Len(mp[i][2].items) |-> <<mp[i][1], mp[i][2].items[k]>>],
                mp[i]),
            i + 1)
    ELSE expand_list_entries(mp, i + 1)

\* The test of the second loop of _get_ds_from_df.
entry_matches(e, df_col) ==
    \/ e[2].kind = "col" /\ e[2].cols[1] = df_col
    \/ e[2].kind = "tuple" /\ df_col \in {e[2].cols[1], e[2].cols[2]}

\* _get_ds_from_df: the key of the first entry that matches, <<>> for None.
_get_ds_from_df(m, df_col) ==
    LET mp == expand_list_entries(m, 1)
        hits == SelectSeq(mp, LAMBDA e : entry_matches(e, df_col))
    IN  IF hits = <<>> THEN <<>> ELSE <<hits[1][1]>>

\* Mutant: reindex pads forward whatever the fill method.
reindex_one_pad(keys, vals, label, fill_method) ==
    LET before == {i \in 1..Len(keys) : keys[i] <= label}
        Max(S) == CHOOSE i \in S : \A j \in S : j <= i
    IN  IF before = {} THEN <<>> ELSE <<vals[Max(before)]>>

\* Series.reindex(target, method=fill_method) of the Series whose index is
\* keys (ascending) and whose values are vals: the value for one target label.
reindex_one(keys, vals, label, fill_method) ==
    LET exact == {i \in 1..Len(keys) : keys[i] = label}
        before == {i \in 1..Len(keys) : keys[i] <= label}
        after == {i \in 1..Len(keys) : keys[i] >= label}
        Max(S) == CHOOSE i \in S : \A j \in S : j <= i
        Min(S) == CHOOSE i \in S : \A j \in S : i <= j
    IN  IF fill_method = "ffill"
        THEN IF before = {} THEN <<>> ELSE <<vals[Max(before)]>>
        ELSE IF fill_method = "bfill"
        THEN IF after = {} THEN <<>> ELSE <<vals[Min(after)]>>
        ELSE IF exact = {} THEN <<>> ELSE <<vals[Min(exact)]>>

\* expand_to_match_ds with fill_value_col the row label ('event_index'): the
\* exception it raises, "none" when it returns.
expand_to_match_ds_err(rows, m, dimension_matching_col) ==
    IF dimension_matching_col \notin Columns THEN "KeyError"
    ELSE IF _get_ds_from_df(m, dimension_matching_col) = <<>> THEN "KeyError"
    ELSE IF HasDuplicates([i \in 1..Len(rows) |-> rows[i][dimension_matching_col]])
    THEN "ValueError"
    ELSE "none"

\* expand_to_match_ds with fill_value_col the row label: for every coordinate
\* of the matched dimension the row label found there, <<>> where none is.
expand_to_match_ds(values, rows, dimension_matching_col, fill_method) ==
    LET sorted == sort_values(rows, dimension_matching_col)
        keys == [i \in 1..Len(sorted) |-> sorted[i][dimension_matching_col]]
        vals == [i \in 1..Len(sorted) |-> sorted[i].Index]
    IN  [p \in 1..Len(values) |-> reindex_one(keys, vals, values[p], fill_method)]

----------------------------------------------------------------------------
(* The Event Grouper.                                                      *)

\* Ascending sequence of the elements of a set of integers.
RECURSIVE SortedSeq(_)
SortedSeq(S) ==
    IF S = {} THEN <<>>
    ELSE LET x == CHOOSE y \in S : \A z \in S : y <= z
         IN  <<x>> \o SortedSeq(S \ {x})

\* DataArray.groupby(key): one group per distinct non-null value of the key,
\* in ascending order of the value; _group_indices[g] lists the 0-based
\* positions at which the key has the g-th value.
native_groupby(key) ==
    LET uniq == SortedSeq({key[p][1] : p \in {q \in 1..Len(key) : key[q] # <<>>}})
    IN  [unique_coord |-> uniq,
         group_indices |->
            [g \in 1..Len(uniq) |->
                [k \in 1..Cardinality({p \in 1..Len(key) : key[p] = <<uniq[g]>>}) |->
                    SortedSeq({p \in 1..Len(key) : key[p] = <<uniq[g]>>})[k] - 1]]]

\* The loop of groupby_events that overwrites _group_indices[Index] by the
\* positions of each event's span; IndexError when the list is too short.
RECURSIVE patch_group_indices(_, _, _, _, _)
patch_group_indices(gi, values, rows, m, i) ==
    IF i > Len(rows) THEN [err |-> "none", group_indices |-> gi]
    ELSE IF rows[i].Index + 1 > Len(gi) THEN [err |-> "IndexError", group_indices |-> gi]
    ELSE patch_group_indices(
            [gi EXCEPT ![rows[i].Index + 1] =
                _slice_ds_indexes_by_duration(values, rows[i][duration_start(m)],
                                              rows[i][duration_end(m)])],
            values, rows, m, i + 1)

\* The GroupBy object before anything is grouped.
NoGroups == [unique_coord |-> <<>>, group_indices |-> <<>>]

\* groupby_events(array_to_group, dimension_matching_col, fill_method), ""
\* standing for an argument left out: the exception raised ("none" when it
\* returns) and the GroupBy object returned.
groupby_events(values, rows, m, dimension_matching_col, fill_method) ==
    LET defaults == m # <<>> /\ dimension_matching_col = "" /\ fill_method = ""
        col == IF defaults THEN duration_start(m) ELSE dimension_matching_col
        method == IF defaults THEN "ffill" ELSE fill_method
        key == expand_to_match_ds(values, rows, col, method)
        native == native_groupby(key)
        overlapping == df_contains_overlapping_events(rows, m)
        gaps == df_contains_gaps(values, rows, m)
        patched == patch_group_indices(native.group_indices, values, rows, m, 1)
        raise(e) == [err |-> e, groups |-> NoGroups]
    IN  IF duration_mapping_outcome(m) = "None" THEN raise("TypeError")
        ELSE IF duration_mapping_outcome(m) = "ValueError" THEN raise("ValueError")
        ELSE IF _get_ds_from_df(m, col) = <<>> THEN raise("KeyError")
        ELSE IF expand_to_match_ds_err(rows, m, col) # "none"
        THEN raise(expand_to_match_ds_err(rows, m, col))
        ELSE IF native.unique_coord = <<>> THEN raise("ValueError")
        ELSE IF overlapping \notin {"True", "False"} THEN raise(overlapping)
        ELSE IF overlapping = "False" /\ gaps \notin {"True", "False"} THEN raise(gaps)
        ELSE IF overlapping = "True" \/ gaps = "True"
        THEN IF SliceRaises(values, rows, m) THEN raise("ValueError")
             ELSE IF patched.err # "none" THEN raise(patched.err)
             ELSE [err |-> "none",
                   groups |-> [native EXCEPT !.group_indices = patched.group_indices]]
        ELSE [err |-> "none", groups |-> native]

----------------------------------------------------------------------------
(* The Event Filter.                                                       *)
(*                                                                         *)
(* A constraint value is a record: kind "scalar" (elems = <<v>>), "list"   *)
(* (a list or set of labels), "tuple" (a tuple of labels), "mask" (a list  *)
(* of Python bools, in bools) or "callable" (fn, with its constant in      *)
(* elems).                                                                 *)

Scalar(v) == [kind |-> "scalar", elems |-> <<v>>, bools |-> <<>>, fn |-> ""]
ListOf(vs) == [kind |-> "list", elems |-> vs, bools |-> <<>>, fn |-> ""]
TupleOf(vs) == [kind |-> "tuple", elems |-> vs, bools |-> <<>>, fn |-> ""]
MaskOf(bs) == [kind |-> "mask", elems |-> <<>>, bools |-> bs, fn |-> ""]
Callable(fn, c) == [kind |-> "callable", elems |-> <<c>>, bools |-> <<>>, fn |-> fn]

\* isinstance(value, collections.Collection), isinstance(value, typing.Hashable),
\* isinstance(value, collections.Callable)
IsCollection(value) == value.kind \in {"list", "tuple", "mask"}
IsHashable(value) == value.kind \in {"scalar", "tuple", "callable"}
IsCallable(value) == value.kind = "callable"

\* len(value) of a Collection.
LenOf(value) == IF value.kind = "mask" THEN Len(value.bools) ELSE Len(value.elems)

\* Mutant: the comparison of the lengths is inverted.
_is_column_mask_len_differs(value, n) ==
    /\ LenOf(value) # n
    /\ value.kind = "mask" \/ LenOf(value) = 0

\* _is_column_mask(val, col): as many elements as rows, each of type bool.
_is_column_mask(value, n) ==
    /\ LenOf(value) = n
    /\ value.kind = "mask" \/ LenOf(value) = 0

\* Mutant: the rows kept are given the labels 0, 1, 2, ...
boolean_index_renumbered(rows, mask) ==
    LET at == {i \in 1..Len(rows) : mask[i]}
        nth(k) == CHOOSE i \in at : Cardinality({j \in at : j < i}) = k - 1
    IN  [k \in 1..Cardinality(at) |-> [rows[nth(k)] EXCEPT !.Index = k - 1]]

\* DataFrame[mask]: the rows at which the mask is True.
RECURSIVE boolean_index(_, _)
boolean_index(rows, mask) ==
    IF rows = <<>> THEN <<>>
    ELSE (IF Head(mask) THEN <<Head(rows)>> ELSE <<>>)
            \o boolean_index(Tail(rows), Tail(mask))

\* Series == value for a value of the first branch.  A scalar is compared
\* with every element.  A tuple is list-like to the comparison: element by
\* element when it is as long as the Series, broadcast when it has one
\* element, and an exception otherwise.
series_eq_raises(rows, value) ==
    value.kind = "tuple" /\ Len(value.elems) \notin {1, Len(rows)}

\* Mutant: != for ==.
series_ne(rows, key, value) ==
    [i \in 1..Len(rows) |->
        IF Len(value.elems) = 1 THEN rows[i][key] # value.elems[1]
        ELSE rows[i][key] # value.elems[i]]

series_eq(rows, key, value) ==
    [i \in 1..Len(rows) |->
        IF Len(value.elems) = 1 THEN rows[i][key] = value.elems[1]
        ELSE rows[i][key] = value.elems[i]]

\* Series.isin(value)
series_isin(rows, key, value) ==
    [i \in 1..Len(rows) |-> rows[i][key] \in Range(value.elems)]

\* value(Series) for the callables of the model: 'eq' is lambda s: s == c
\* and 'gt' is lambda s: s > c, both giving a Series of bools; 'plus' is
\* lambda s: s + c, a Series of integers.
value_transformed(rows, key, value) ==
    IF value.fn = "eq"
    THEN MaskOf([i \in 1..Len(rows) |-> rows[i][key] = value.elems[1]])
    ELSE IF value.fn = "gt"
    THEN MaskOf([i \in 1..Len(rows) |-> rows[i][key] > value.elems[1]])
    ELSE ListOf([i \in 1..Len(rows) |-> rows[i][key] + value.elems[1]])

\* The exceptions a comparison of a Series with a tuple of another length
\* raises: TypeError or ValueError, depending on the numpy the build has.
CompareErrors == {"TypeError", "ValueError"}

\* The exception the callable 'raises' (lambda s: 1 / 0) raises.
CallableErrors == {"ZeroDivisionError"}

\* _filter_events(key, value): the events DataFrame it stores, whether the
\* comparison or the callable raises, and the exceptions that can be.
_filter_events(rows, key, value) ==
    LET kept(mask) == [raises |-> FALSE, df |-> boolean_index(rows, mask), errors |-> {}]
        unfiltered == [raises |-> FALSE, df |-> rows, errors |-> {}]
    IN  IF ~(IsCollection(value) /\ ~IsHashable(value)) /\ ~IsCallable(value)
        THEN IF series_eq_raises(rows, value)
             THEN [raises |-> TRUE, df |-> rows, errors |-> CompareErrors]
             ELSE kept(series_eq(rows, key, value))
        ELSE IF IsCollection(value) /\ ~_is_column_mask(value, Len(rows))
        THEN kept(series_isin(rows, key, value))
        ELSE IF IsCallable(value)
        THEN IF value.fn = "raises"
             THEN [raises |-> TRUE, df |-> rows, errors |-> CallableErrors]
             ELSE IF _is_column_mask(value_transformed(rows, key, value), Len(rows))
             THEN kept(value_transformed(rows, key, value).bools)
             ELSE unfiltered
        ELSE unfiltered

\* The loop of sel over the constraints that match columns.
RECURSIVE filter_all(_, _)
filter_all(rows, cs) ==
    IF cs = <<>> THEN [raises |-> FALSE, df |-> rows, errors |-> {}]
    ELSE LET r == _filter_events(rows, Head(cs)[1], Head(cs)[2])
         IN  IF r.raises THEN r ELSE filter_all(r.df, Tail(cs))

----------------------------------------------------------------------------
(* The Dataset's own selection, xr.Dataset.sel.                            *)

DataVars == {"ball_trajectory"}

\* list(self._ds.dims)
Dims(d) == {k \in DOMAIN d : d[k].kind = "dim"}

Abs(x) == IF x < 0 THEN 0 - x ELSE x

\* Index.get_loc(label, method, tolerance) on an increasing index of
\* integers: the 1-based position, 0 for a KeyError.
get_loc(vals, label, method, tolerance) ==
    LET near == {p \in 1..Len(vals) :
                    /\ \A q \in 1..Len(vals) : Abs(vals[p] - label) <= Abs(vals[q] - label)
                    /\ tolerance = <<>> \/ Abs(vals[p] - label) <= tolerance[1]}
    IN  IF method = "nearest"
        THEN IF near = {} THEN 0 ELSE CHOOSE p \in near : \A q \in near : q <= p
        ELSE ListIndex(vals, label)

\* The selection along one dimension.
sel_one(dim, key, value, method, tolerance, drop) ==
    LET locs == [i \in 1..Len(value.elems) |->
                    get_loc(dim.vals, value.elems[i], method, tolerance)]
    IN  IF \E i \in 1..Len(locs) : locs[i] = 0
        THEN [err |-> "KeyError", dim |-> dim]
        ELSE IF value.kind = "scalar"
        THEN [err |-> "none",
              dim |-> [kind |-> IF drop THEN "dropped" ELSE "scalar",
                       vals |-> <<dim.vals[locs[1]]>>]]
        ELSE [err |-> "none",
              dim |-> [kind |-> "dim", vals |-> [i \in 1..Len(locs) |-> dim.vals[locs[i]]]]]

\* Dataset.sel(indexers, method, tolerance, drop): the exception raised
\* ("none" when it returns) and the Dataset returned.  An indexer that names
\* no dimension is a ValueError, a fill method on the labels of
\* 'cartesian_coords' (strings) a TypeError.
RECURSIVE DatasetSel(_, _, _, _, _)
DatasetSel(d, indexers, method, tolerance, drop) ==
    IF indexers = <<>> THEN [err |-> "none", ds |-> d]
    ELSE LET key == Head(indexers)[1]
             value == Head(indexers)[2]
             one == sel_one(d[key], key, value, method, tolerance, drop)
             rest == DatasetSel(d, Tail(indexers), method, tolerance, drop)
         IN  IF \E i \in 1..Len(indexers) : indexers[i][1] \notin Dims(d)
             THEN [err |-> "ValueError", ds |-> d]
             ELSE IF key = "cartesian_coords" /\ method # ""
             THEN [err |-> "TypeError", ds |-> d]
             ELSE IF one.err # "none" THEN [err |-> one.err, ds |-> d]
             ELSE IF rest.err # "none" THEN [err |-> rest.err, ds |-> d]
             ELSE [err |-> "none", ds |-> [rest.ds EXCEPT ![key] = one.dim]]

----------------------------------------------------------------------------
(* The Datasets and events DataFrames the accessor is given.               *)

\* The coordinate values of dimension 'frame': np.arange(1, MaxVal + 1), the
\* odd values of it (so that the even values are no coordinates), and the
\* range rotated by one (a coordinate that is not increasing).
FrameChoices ==
    { [i \in 1..MaxVal |-> i],
      [i \in 1..((MaxVal + 1) \div 2) |-> 2 * i - 1],
      [i \in 1..MaxVal |-> IF i < MaxVal THEN i + 1 ELSE 1] }

Dim(vals) == [kind |-> "dim", vals |-> vals]

Datasets ==
    { [frame |-> Dim(f), cartesian_coords |-> Dim(<<"x", "y">>)] : f \in FrameChoices }

\* The values of dimension dim of the Dataset d.
DimValues(d, dim) == d[dim].vals

\* An event: start_frame <= end_frame, both within 1..MaxVal.
Durations == {se \in (1..MaxVal) \X (1..MaxVal) : se[1] <= se[2]}

EventTypes == <<"pass", "goal">>

\* pd.DataFrame({'event_type': ..., 'start_frame': ..., 'end_frame': ...}): the
\* row labels are 0, 1, 2, ...; the event types alternate.
DataFrame(durs) ==
    [i \in 1..Len(durs) |->
        [Index |-> i - 1,
         event_type |-> EventTypes[((i - 1) % 2) + 1],
         start_frame |-> durs[i][1],
         end_frame |-> durs[i][2]]]

DataFrames ==
    UNION { {DataFrame(durs) : durs \in [1..n -> Durations]} : n \in 0..MaxEvents }

\* The events to load: the rows and the name of the row index ("" for an
\* index without a name).
Sources(frames, names) == {[name |-> n, rows |-> r] : n \in names, r \in frames}

NoArgs == [dimension_matching_col |-> "", fill_method |-> ""]

\* No DataArray returned yet.
NoArray == [ndim |-> 0, name |-> "", values |-> <<>>]

----------------------------------------------------------------------------
(* The accessor as a state machine.                                        *)

Init ==
    /\ ds \in Datasets
    /\ has_events = FALSE
    /\ df = <<>>
    /\ mapping = <<>>
    /\ op = "__init__"
    /\ result = "None"
    /\ err = "none"
    /\ groups = NoGroups
    /\ args = NoArgs
    /\ df_pre = <<>>
    /\ ds_pre = ds
    /\ index_name = ""
    /\ array = NoArray
    /\ warned = {}
    /\ err_args = <<>>
    /\ entry = <<>>
    /\ warnings_ignored = FALSE

\* The setter of ds_df_mapping: the columns and keys a mapping names.
RECURSIVE _flatten_list_tuples_strings(_)
_flatten_list_tuples_strings(mapping_values) ==
    IF mapping_values = <<>> THEN {}
    ELSE LET val == Head(mapping_values)
         IN  IF val.kind = "list"
             THEN _flatten_list_tuples_strings(Tail(mapping_values) \o val.items)
             ELSE Range(val.cols) \cup _flatten_list_tuples_strings(Tail(mapping_values))

mapping_is_valid(d, m) ==
    /\ _flatten_list_tuples_strings([i \in 1..Len(m) |-> m[i][2]]) \subseteq Columns
    /\ {m[i][1] : i \in 1..Len(m)} \subseteq {"ball_trajectory"} \cup DOMAIN d

\* load(source, ds_df_mapping), <<>> standing for no mapping (or an empty
\* one): _load_events_from_DataFrame attaches the events with assign_attrs,
\* then the setter of ds_df_mapping warns if a mapping is stored already,
\* validates the new one and stores it.
Load(source, m) ==
    /\ op' = "load"
    /\ args' = [ds_df_mapping |-> m]
    /\ df_pre' = df
    /\ ds_pre' = ds
    /\ has_events' = TRUE
    /\ df' = source.rows
    /\ index_name' = source.name
    /\ warned' = IF m # <<>> /\ mapping # <<>> /\ ~warnings_ignored
                 THEN {"_ds_df_mapping"} ELSE {}
    /\ err_args' = <<>>
    /\ IF m # <<>> /\ ~mapping_is_valid(ds, m)
       THEN /\ err' = "ValueError"
            /\ result' = "None"
            /\ mapping' = mapping
       ELSE /\ err' = "none"
            /\ result' = "Dataset"
            /\ mapping' = IF m # <<>> THEN m ELSE mapping
    /\ UNCHANGED <<ds, groups, array, entry, warnings_ignored>>

\* load as the first call on the accessor.
FirstLoad(source, m) == op = "__init__" /\ Load(source, m)

\* fill_gaps(event_type_col_name, event_type_col_value, extra_col_val_pairs)
FillGapsWith(a) ==
    /\ has_events
    /\ op' = "fill_gaps"
    /\ args' = a
    /\ df_pre' = df
    /\ ds_pre' = ds
    /\ err' = fill_gaps_err(DimValues(ds, "frame"), df, mapping)
    /\ result' = IF err' = "none" THEN "Dataset" ELSE "None"
    /\ df' = fill_gaps_df(DimValues(ds, "frame"), df, mapping, a)
    /\ index_name' = IF df' # df THEN "" ELSE index_name
    /\ warned' = {}
    /\ err_args' = <<>>
    /\ warnings_ignored' = IF err' = "none" THEN FALSE ELSE warnings_ignored
    /\ UNCHANGED <<ds, has_events, mapping, groups, array, entry>>

\* fill_gaps()
FillGaps == FillGapsWith(DefaultFillArgs)

\* A method that returns a truth value or raises.
Outcome(o) ==
    /\ err' = IF o \in {"True", "False"} THEN "none" ELSE o
    /\ result' = IF o \in {"True", "False"} THEN o ELSE "None"
    /\ warned' = {}
    /\ err_args' = <<>>

\* df_contains_gaps()
DfContainsGaps ==
    /\ has_events
    /\ op' = "df_contains_gaps"
    /\ args' = NoArgs
    /\ df_pre' = df
    /\ ds_pre' = ds
    /\ Outcome(df_contains_gaps(DimValues(ds, "frame"), df, mapping))
    /\ UNCHANGED <<ds, has_events, df, mapping, groups, index_name, array, entry, warnings_ignored>>

\* df_contains_overlapping_events()
DfContainsOverlappingEvents ==
    /\ has_events
    /\ op' = "df_contains_overlapping_events"
    /\ args' = NoArgs
    /\ df_pre' = df
    /\ ds_pre' = ds
    /\ Outcome(df_contains_overlapping_events(df, mapping))
    /\ UNCHANGED <<ds, has_events, df, mapping, groups, index_name, array, entry, warnings_ignored>>

GroupbyArgs ==
    { NoArgs,
      [dimension_matching_col |-> "start_frame", fill_method |-> "ffill"],
      [dimension_matching_col |-> "end_frame", fill_method |-> "bfill"],
      [dimension_matching_col |-> "start_frame", fill_method |-> ""],
      [dimension_matching_col |-> "event_type", fill_method |-> "ffill"] }

\* groupby_events('ball_trajectory', dimension_matching_col, fill_method)
GroupbyEvents(a) ==
    LET g == groupby_events(DimValues(ds, "frame"), df, mapping,
                            a.dimension_matching_col, a.fill_method)
    IN  /\ has_events
        /\ op' = "groupby_events"
        /\ args' = a
        /\ df_pre' = df
        /\ ds_pre' = ds
        /\ err' = g.err
        /\ result' = IF g.err = "none" THEN "GroupBy" ELSE "None"
        /\ groups' = g.groups
        /\ warned' = {}
        /\ err_args' = <<>>
        /\ UNCHANGED <<ds, has_events, df, mapping, index_name, array, entry, warnings_ignored>>

Next ==
    \/ \E source \in Sources(DataFrames, {""}) : FirstLoad(source, DurationMapping)
    \/ FillGaps
    \/ DfContainsGaps
    \/ DfContainsOverlappingEvents
    \/ \E a \in GroupbyArgs : GroupbyEvents(a)

Spec == Init /\ [][Next]_vars

----------------------------------------------------------------------------
(* The store: the events and the mapping set, read and set again.          *)

\* The events given to the store: none, or one event that starts with 1.
StoreFrames == {<<>>} \cup {DataFrame(<< <<1, e>> >>) : e \in 1..MaxVal}

\* The mappings given to load and to the setter: every reference resolves ...
ValidMappings ==
    { DurationMapping,
      << <<"frame", MapCol("start_frame")>> >>,
      << <<"frame", MapList(<<MapTuple("start_frame", "end_frame"), MapCol("event_type")>>)>> >>,
      << <<"frame", MapTuple("start_frame", "end_frame")>>,
         <<"cartesian_coords", MapTuple("start_frame", "end_frame")>> >>,
      << <<"ball_trajectory", MapCol("event_type")>> >> }

\* ... or some column or key does not.
InvalidMappings ==
    { << <<"frame", MapTuple("starting_frame", "finishing_frame")>> >>,
      << <<"frames", MapTuple("start_frame", "end_frame")>> >>,
      << <<"frame", MapList(<<MapCol("start_frame"), MapCol("bogus")>>)>> >>,
      << <<"frame", MapCol("start_frame")>>, <<"bogus", MapCol("end_frame")>> >> }

\* The setter of df: warn if events are attached already, then attach.
SetDf(source) ==
    /\ op' = "df"
    /\ args' = NoArgs
    /\ df_pre' = df
    /\ ds_pre' = ds
    /\ warned' = IF has_events /\ ~warnings_ignored THEN {"_events"} ELSE {}
    /\ has_events' = TRUE
    /\ df' = source.rows
    /\ index_name' = source.name
    /\ err' = "none"
    /\ err_args' = <<>>
    /\ result' = "None"
    /\ UNCHANGED <<ds, mapping, groups, array, entry, warnings_ignored>>

\* The setter of ds_df_mapping, given a mapping that is not empty: warn if a
\* mapping is stored already, read the columns of the events (TypeError when
\* none are attached), validate, store.
SetMapping(m) ==
    /\ op' = "ds_df_mapping"
    /\ args' = [ds_df_mapping |-> m]
    /\ df_pre' = df
    /\ ds_pre' = ds
    /\ warned' = IF mapping # <<>> /\ ~warnings_ignored THEN {"_ds_df_mapping"} ELSE {}
    /\ err' = IF ~has_events THEN "TypeError"
              ELSE IF ~mapping_is_valid(ds, m) THEN "ValueError"
              ELSE "none"
    /\ mapping' = IF err' = "none" THEN m ELSE mapping
    /\ err_args' = <<>>
    /\ result' = "None"
    /\ UNCHANGED <<ds, has_events, df, groups, index_name, array, entry, warnings_ignored>>

\* The getter of duration_mapping: TypeError from the getter of
\* ds_df_mapping when no mapping is stored, else None, ValueError or the entry.
GetDurationMapping ==
    LET o == duration_mapping_outcome(mapping)
    IN  /\ op' = "duration_mapping"
        /\ args' = NoArgs
        /\ df_pre' = df
        /\ ds_pre' = ds
        /\ warned' = {}
        /\ err_args' = <<>>
        /\ err' = IF mapping = <<>> THEN "TypeError"
                  ELSE IF o = "ValueError" THEN "ValueError"
                  ELSE "none"
        /\ result' = IF err' = "none" /\ o = "entry" THEN "tuple" ELSE "None"
        /\ entry' = IF err' = "none" /\ o = "entry" THEN <<duration_mapping(mapping)>> ELSE <<>>
        /\ UNCHANGED <<ds, has_events, df, mapping, groups, index_name, array, warnings_ignored>>

NextLoad ==
    \/ \E source \in Sources(StoreFrames, {""}),
          m \in ValidMappings \cup InvalidMappings \cup {<<>>} : Load(source, m)
    \/ \E source \in Sources(StoreFrames, {""}) : SetDf(source)
    \/ \E m \in ValidMappings \cup InvalidMappings : SetMapping(m)
    \/ GetDurationMapping
    \/ FillGaps
    \/ DfContainsGaps
    \/ DfContainsOverlappingEvents

SpecLoad == Init /\ [][NextLoad]_vars

----------------------------------------------------------------------------
(* The Dimension Expander called on its own, with any value column.       *)

\* df_cols_expanded: the columns, the name of the row index when it has one
\* and 'event_index'.
df_cols_expanded(name) ==
    Columns \cup (IF name = "" THEN {} ELSE {name}) \cup {"event_index"}

\* The name of the column that holds the row labels after reset_index() and
\* rename(columns={'index': fill_value_col}): an unnamed index becomes
\* 'index' and is renamed, a named index keeps its name.
label_column(name, fill_value_col) == IF name = "" THEN fill_value_col ELSE name

\* After the rename two columns carry the name fill_value_col: the row
\* labels and the column of the events that had the name already.
column_is_doubled(name, fill_value_col) == name = "" /\ fill_value_col \in Columns

\* expand_to_match_ds: the exception it raises, "none" when it returns.
expand_err(rows, name, m, dimension_matching_col, fill_value_col) ==
    IF \/ dimension_matching_col \notin df_cols_expanded(name)
       \/ fill_value_col \notin df_cols_expanded(name)
    THEN "KeyError"
    ELSE IF dimension_matching_col \notin Columns \cup ({name} \ {""}) THEN "KeyError"
    ELSE IF fill_value_col \notin Columns \cup {label_column(name, fill_value_col)}
    THEN "KeyError"
    ELSE IF m = <<>> THEN "TypeError"
    ELSE IF _get_ds_from_df(m, dimension_matching_col) = <<>> THEN "KeyError"
    ELSE IF HasDuplicates([i \in 1..Len(rows) |->
                IF dimension_matching_col \in Columns
                THEN rows[i][dimension_matching_col] ELSE rows[i].Index])
    THEN "ValueError"
    ELSE "none"

\* expand_to_match_ds when it returns: the DataArray made of what
\* [fill_value_col] selects, reindexed by the coordinates values. A doubled
\* column selects both columns and gives a 2-D array without a name.
expand_array(values, rows, name, dimension_matching_col, fill_method, fill_value_col) ==
    LET by_col == dimension_matching_col \in Columns
        sorted == IF by_col THEN sort_values(rows, dimension_matching_col) ELSE rows
        keys == [i \in 1..Len(sorted) |->
                    IF by_col THEN sorted[i][dimension_matching_col] ELSE sorted[i].Index]
        doubled == column_is_doubled(name, fill_value_col)
        vals == [i \in 1..Len(sorted) |->
                    IF doubled THEN <<sorted[i].Index, sorted[i][fill_value_col]>>
                    ELSE IF fill_value_col \in Columns THEN sorted[i][fill_value_col]
                    ELSE sorted[i].Index]
    IN  [ndim |-> IF doubled THEN 2 ELSE 1,
         name |-> IF doubled THEN "" ELSE fill_value_col,
         values |-> [p \in 1..Len(values) |->
                        reindex_one(keys, vals, values[p], fill_method)]]

\* The events of the expansions: one event or more, all ending with MaxVal.
ExpandFrames ==
    UNION { {DataFrame([i \in 1..n |-> <<s[i], MaxVal>>]) : s \in [1..n -> 1..MaxVal]}
            : n \in 1..MaxEvents }

\* events.index.name: none, or the name the tests give.
IndexNames == {"", "custom_index_name"}

\* The mappings of the expansions: none, the duration, a simple entry.
ExpandMappings ==
    {<<>>, DurationMapping, << <<"frame", MapCol("start_frame")>> >>}

\* The arguments of expand_to_match_ds; the two columns differ.
ExpandArgs ==
    { a \in [dimension_matching_col : {"start_frame", "end_frame", "bogus"},
             fill_method : {"", "ffill", "bfill"},
             fill_value_col : {"event_index", "custom_index_name", "event_type",
                               "end_frame", "bogus"}]
        : a.dimension_matching_col # a.fill_value_col }

\* expand_to_match_ds(dimension_matching_col, fill_method, fill_value_col)
ExpandToMatchDs(a) ==
    LET e == IF ~has_events THEN "TypeError"
             ELSE expand_err(df, index_name, mapping,
                             a.dimension_matching_col, a.fill_value_col)
    IN  /\ op' = "expand_to_match_ds"
        /\ args' = a
        /\ df_pre' = df
        /\ ds_pre' = ds
        /\ err' = e
        /\ result' = IF e = "none" THEN "DataArray" ELSE "None"
        /\ array' = IF e = "none"
                    THEN expand_array(
                            DimValues(ds, _get_ds_from_df(mapping, a.dimension_matching_col)[1]),
                            df, index_name, a.dimension_matching_col,
                            a.fill_method, a.fill_value_col)
                    ELSE NoArray
        /\ warned' = {}
        /\ err_args' = <<>>
        /\ UNCHANGED <<ds, has_events, df, mapping, groups, index_name, entry, warnings_ignored>>

NextExpand ==
    \/ \E source \in Sources(ExpandFrames, IndexNames), m \in ExpandMappings :
            FirstLoad(source, m)
    \/ \E a \in ExpandArgs : ExpandToMatchDs(a)

SpecExpand == Init /\ [][NextExpand]_vars

----------------------------------------------------------------------------
(* The Gap Filler with its arguments.                                      *)

\* The arguments of fill_gaps: the column of the event type or a new one,
\* two labels, and no extra column, one, or two of which one is the column
\* of the event type.
FillArgs ==
    [event_type_col_name : {"event_type", "event_kind"},
     event_type_col_value : {"default", "outOfScope"},
     extra_col_val_pairs : {<<>>, << <<"category", 5>> >>,
                            << <<"category", 5>>, <<"event_type", "foul">> >>}]

NextFill ==
    \/ \E source \in Sources(DataFrames, {""}) : FirstLoad(source, DurationMapping)
    \/ \E a \in FillArgs : FillGapsWith(a)
    \/ DfContainsGaps

SpecFill == Init /\ [][NextFill]_vars

----------------------------------------------------------------------------
(* The Gap Filler over coordinates that are not consecutive.               *)

\* frame = np.arange(0, 12, 2)
ScenarioDataset ==
    [frame |-> Dim([i \in 1..6 |-> 2 * (i - 1)]), cartesian_coords |-> Dim(<<"x", "y">>)]

\* Two events: the first within 0..4, the second within 6..10.
ScenarioFrames ==
    {DataFrame(<< <<s1, e1>>, <<s2, e2>> >>) :
        s1 \in 0..2, e1 \in 2..4, s2 \in 6..8, e2 \in 8..10}

InitScenario ==
    /\ ds = ScenarioDataset
    /\ has_events = FALSE
    /\ df = <<>>
    /\ mapping = <<>>
    /\ op = "__init__"
    /\ result = "None"
    /\ err = "none"
    /\ groups = NoGroups
    /\ args = NoArgs
    /\ df_pre = <<>>
    /\ ds_pre = ds
    /\ index_name = ""
    /\ array = NoArray
    /\ warned = {}
    /\ err_args = <<>>
    /\ entry = <<>>
    /\ warnings_ignored = FALSE

NextScenario ==
    \/ \E source \in Sources(ScenarioFrames, {""}) : FirstLoad(source, DurationMapping)
    \/ FillGaps
    \/ DfContainsGaps

SpecScenario == InitScenario /\ [][NextScenario]_vars

----------------------------------------------------------------------------
(* The Dimension Expander after the Gap Filler.                            *)

\* expand_to_match_ds(start, 'ffill') and expand_to_match_ds(end, 'bfill'),
\* the value column left to its default.
FillExpandArgs ==
    { [dimension_matching_col |-> "start_frame", fill_method |-> "ffill",
       fill_value_col |-> "event_index"],
      [dimension_matching_col |-> "end_frame", fill_method |-> "bfill",
       fill_value_col |-> "event_index"] }

NextFillExpand ==
    \/ \E source \in Sources(DataFrames, IndexNames) : FirstLoad(source, DurationMapping)
    \/ FillGaps
    \/ \E a \in FillExpandArgs : ExpandToMatchDs(a)

SpecFillExpand == Init /\ [][NextFillExpand]_vars

----------------------------------------------------------------------------
(* The duration pair inside a list of the mapping.                         *)

\* {'frame': [('start_frame', 'end_frame'), 'event_type']}
NestedMapping ==
    << <<"frame", MapList(<<MapTuple("start_frame", "end_frame"), MapCol("event_type")>>)>> >>

\* expand_to_match_ds by a column of the pair, the value column left to its
\* default.
NestedExpandArgs ==
    [dimension_matching_col : {"start_frame", "end_frame"},
     fill_method : {"", "ffill", "bfill"},
     fill_value_col : {"event_index"}]

NextNested ==
    \/ \E source \in Sources(ExpandFrames, {""}) : FirstLoad(source, NestedMapping)
    \/ \E a \in NestedExpandArgs : ExpandToMatchDs(a)
    \/ DfContainsGaps
    \/ DfContainsOverlappingEvents
    \/ FillGaps
    \/ \E a \in GroupbyArgs : GroupbyEvents(a)

SpecNested == Init /\ [][NextNested]_vars

----------------------------------------------------------------------------
(* Selections: one sel on an accessor, with or without events.             *)

\* The Dataset of the selections: frame = np.arange(1, MaxSelVal + 2).
SelDataset ==
    [frame |-> Dim([i \in 1..(MaxSelVal + 1) |-> i]),
     cartesian_coords |-> Dim(<<"x", "y">>)]

\* The Dataset whose first dimension has the name of a column of the events:
\* start_frame = np.arange(1, MaxSelVal + 2).
SelDatasetStartFrame ==
    [start_frame |-> Dim([i \in 1..(MaxSelVal + 1) |-> i]),
     cartesian_coords |-> Dim(<<"x", "y">>)]

SelDatasets == {SelDataset, SelDatasetStartFrame}

\* The events of the selections start within 1..MaxSelVal and end with the
\* last frame.
SelDataFrames ==
    UNION { {DataFrame(durs) :
                durs \in [1..n -> {<<s, MaxSelVal + 1>> : s \in 1..MaxSelVal}]} :
            n \in 0..MaxSelRows }

\* The lists of one or two labels.
LabelLists == UNION { [1..n -> 1..MaxSelVal] : n \in 1..2 }

\* The constraint values for a column of integers.
ColumnValues ==
    {Scalar(v) : v \in 1..(MaxSelVal + 1)}
        \cup {ListOf(vs) : vs \in LabelLists}
        \cup {TupleOf(vs) : vs \in LabelLists}
        \cup {MaskOf(bs) : bs \in UNION { [1..n -> BOOLEAN] : n \in 1..MaxSelRows }}
        \cup {Callable(fn, c) : fn \in {"eq", "gt"}, c \in 1..MaxSelVal}
        \cup {Callable("plus", 1)}

\* The constraint values for the column of event types.
TypeValues == {Scalar("pass"), Scalar("goal"), ListOf(<<"pass">>), ListOf(<<"goal", "pass">>)}

\* The constraint values for dimension 'frame' and for 'cartesian_coords'.
FrameLabels ==
    {Scalar(v) : v \in 1..(MaxSelVal + 2)} \cup {ListOf(<<1>>), ListOf(<<2, 1>>)}
CartesianLabels == {Scalar("x"), ListOf(<<"y">>)}

\* The constraint dictionaries: one key, or two keys.
EventConstraints ==
    {<<"start_frame", v>> : v \in ColumnValues}
        \cup {<<"end_frame", v>> : v \in {Scalar(MaxSelVal + 1), ListOf(<<1>>)}}
        \cup {<<"event_type", v>> : v \in TypeValues}

DimConstraints ==
    {<<"frame", v>> : v \in FrameLabels} \cup {<<"cartesian_coords", v>> : v \in CartesianLabels}

OtherConstraints ==
    {<<"ball_trajectory", Scalar(1)>>, <<"bogus", Scalar(1)>>, <<"coords", Scalar("x")>>}

SimpleEventConstraints ==
    {c \in EventConstraints : c[2].kind \in {"scalar", "list"}}

\* Two event constraints in one call, in both orders.
EventPairs ==
    LET a == {<<"start_frame", Scalar(1)>>, <<"start_frame", ListOf(<<1>>)>>}
        b == {<<"event_type", Scalar("pass")>>}
    IN  {<<x, y>> : x \in a, y \in b} \cup {<<y, x>> : x \in a, y \in b}

\* The dictionaries whose keys are no columns of the events; the keys of a
\* dictionary differ.
DimIndexers ==
    {i \in
        {<<c>> : c \in DimConstraints \cup OtherConstraints}
            \cup {<<c1, c2>> : c1 \in {<<"frame", Scalar(1)>>, <<"cartesian_coords", Scalar("x")>>},
                               c2 \in DimConstraints \cup OtherConstraints}
            \cup {<<c1, c2>> : c1, c2 \in OtherConstraints} :
        Len(i) = 2 => i[1][1] # i[2][1]}

\* The dictionaries with a key that is a column of the events.
EventIndexers ==
    {<<c>> : c \in EventConstraints}
        \cup {<<c1, c2>> : c1 \in {<<"frame", Scalar(1)>>, <<"cartesian_coords", Scalar("x")>>},
                           c2 \in SimpleEventConstraints}
        \cup EventPairs

\* method, tolerance and drop: tolerance goes with a method only.
SelOptions ==
    {[method |-> o[1][1], tolerance |-> o[1][2], drop |-> o[2]] :
        o \in {<<"", <<>> >>, <<"nearest", <<>> >>, <<"nearest", <<0>> >>} \X BOOLEAN}

\* The calls of sel: every option with the dictionaries of dimensions, the
\* defaults and drop=True with the others.
SelCalls ==
    {[indexers |-> i, method |-> o.method, tolerance |-> o.tolerance, drop |-> o.drop] :
        i \in DimIndexers, o \in SelOptions}
    \cup
    {[indexers |-> i, method |-> "", tolerance |-> <<>>, drop |-> d] :
        i \in EventIndexers, d \in BOOLEAN}

\* A list of bools is given as a mask of the current events only, a tuple
\* is compared with a column that has rows, and a dimension is given a label
\* or a list of labels.
ArgsFit(indexers) ==
    \A i \in 1..Len(indexers) :
        /\ indexers[i][2].kind = "mask" => Len(indexers[i][2].bools) = Len(df)
        /\ indexers[i][2].kind = "tuple" => Len(df) >= 1
        /\ indexers[i][1] \in Dims(ds) => indexers[i][2].kind \in {"scalar", "list"}

InitSel ==
    /\ ds \in SelDatasets
    /\ has_events = FALSE
    /\ df = <<>>
    /\ mapping = <<>>
    /\ op = "__init__"
    /\ result = "None"
    /\ err = "none"
    /\ groups = NoGroups
    /\ args = NoArgs
    /\ df_pre = <<>>
    /\ ds_pre = ds
    /\ index_name = ""
    /\ array = NoArray
    /\ warned = {}
    /\ err_args = <<>>
    /\ entry = <<>>
    /\ warnings_ignored = FALSE

\* The classification of the constraints by sel.
events_columns == IF has_events THEN Columns ELSE {}
\* Mutant: the dimensions are left out.
ds_names_without_dims == DataVars

ds_names == DataVars \cup Dims(ds)

\* Mutant: elif for if, a constraint of the Dataset is none of the events.
constraints_events_elif(indexers) ==
    SelectSeq(indexers, LAMBDA c : c[1] \in events_columns /\ c[1] \notin ds_names)

constraints_events(indexers) == SelectSeq(indexers, LAMBDA c : c[1] \in events_columns)

\* Mutant: every constraint goes to Dataset.sel.
constraints_sel_all(indexers) == indexers

constraints_sel(indexers) == SelectSeq(indexers, LAMBDA c : c[1] \in ds_names)
unknown_constraints(indexers) ==
    SelectSeq(indexers, LAMBDA c : c[1] \notin (events_columns \cup ds_names))

\* Mutant: the selection is made on the Dataset of before the last call.
held_dataset_stale == ds_pre

\* self._ds, the Dataset the accessor holds.
held_dataset == ds

\* sel(indexers, method, tolerance, drop)
Sel(a) ==
    LET indexers == a.indexers
        o == a
        prim == DatasetSel(held_dataset, constraints_sel(indexers), o.method, o.tolerance, o.drop)
        filtered == filter_all(df, constraints_events(indexers))
    IN  /\ ArgsFit(indexers)
        /\ op' = "sel"
        /\ args' = a
        /\ df_pre' = df
        /\ ds_pre' = ds
        /\ warned' = {}
        /\ IF unknown_constraints(indexers) # <<>>
           THEN /\ err' = "KeyError"
                /\ err_args' = [i \in 1..Len(unknown_constraints(indexers)) |->
                                    unknown_constraints(indexers)[i][1]]
                /\ result' = "None"
                /\ UNCHANGED <<ds, df>>
           ELSE IF prim.err # "none"
           THEN /\ err' = prim.err
                /\ err_args' = <<>>
                /\ result' = "None"
                /\ UNCHANGED <<ds, df>>
           ELSE /\ ds' = prim.ds
                /\ df' = filtered.df
                /\ err_args' = <<>>
                /\ IF filtered.raises
                   THEN /\ err' \in filtered.errors
                        /\ result' = "None"
                   ELSE /\ err' = "none"
                        /\ result' = "Dataset"
        /\ warnings_ignored' =
            IF unknown_constraints(indexers) # <<>> \/ prim.err # "none"
                    \/ constraints_events(indexers) = <<>>
            THEN warnings_ignored
            ELSE filtered.raises
        /\ UNCHANGED <<has_events, mapping, groups, index_name, array, entry>>

\* sel as the first call after __init__ or load.
FirstSel(a) == op \in {"__init__", "load"} /\ Sel(a)

NextSel ==
    \/ \E source \in Sources(SelDataFrames, {""}) : FirstLoad(source, <<>>)
    \/ \E a \in SelCalls : FirstSel(a)

SpecSel == InitSel /\ [][NextSel]_vars

----------------------------------------------------------------------------
(* Selections: sel after sel on the same accessor.                         *)

\* The events of the sequences: one to MaxSelRows rows.
SeqDataFrames == {rows \in SelDataFrames : Len(rows) >= 1}

\* The dictionaries of the sequences: a dimension, a column of the events,
\* or two columns of the events in both orders.
SeqDimIndexers ==
    { << <<"frame", Scalar(1)>> >>, << <<"frame", ListOf(<<1>>)>> >>,
      << <<"frame", ListOf(<<2, 1>>)>> >>,
      << <<"cartesian_coords", Scalar("x")>> >>, << <<"cartesian_coords", ListOf(<<"y">>)>> >> }

SeqEventIndexers ==
    { << <<"start_frame", Scalar(1)>> >>, << <<"start_frame", ListOf(<<2>>)>> >>,
      << <<"event_type", Scalar("pass")>> >>, << <<"end_frame", Scalar(MaxSelVal + 1)>> >> }

SeqEventPairs ==
    LET a == {<<"start_frame", Scalar(1)>>, <<"start_frame", ListOf(<<1>>)>>,
              <<"start_frame", TupleOf(<<2, 1>>)>>}
        b == {<<"event_type", Scalar("pass")>>, <<"event_type", ListOf(<<"goal">>)>>}
    IN  {<<x, y>> : x \in a, y \in b} \cup {<<y, x>> : x \in a, y \in b}

SeqCalls ==
    {[indexers |-> i, method |-> "", tolerance |-> <<>>, drop |-> FALSE] :
        i \in SeqDimIndexers \cup SeqEventIndexers \cup SeqEventPairs}

InitSeq == InitSel /\ ds = SelDataset

NextSeq ==
    \/ \E source \in Sources(SeqDataFrames, {""}) : FirstLoad(source, <<>>)
    \/ \E a \in SeqCalls : Sel(a)

SpecSeq == InitSeq /\ [][NextSeq]_vars

----------------------------------------------------------------------------
(* The warnings of the store around sel and fill_gaps.                     *)

\* The calls of sel: filters that return, a callable that raises (lambda s:
\* 1 / 0), alone and after a filter that returns, and a tuple.
WarnCalls ==
    {[indexers |-> i, method |-> "", tolerance |-> <<>>, drop |-> FALSE] :
        i \in { << <<"start_frame", Scalar(1)>> >>,
                << <<"event_type", ListOf(<<"pass", "goal">>)>> >>,
                << <<"start_frame", Callable("raises", 0)>> >>,
                << <<"event_type", Scalar("pass")>>, <<"start_frame", Callable("raises", 0)>> >>,
                << <<"start_frame", TupleOf(<<1, 2>>)>> >> }}

NextWarn ==
    \/ \E source \in Sources(SeqDataFrames, {""}) : FirstLoad(source, DurationMapping)
    \/ \E source \in Sources(SeqDataFrames, {""}) : SetDf(source)
    \/ SetMapping(DurationMapping)
    \/ FillGaps
    \/ \E a \in WarnCalls : Sel(a)

SpecWarn == InitSeq /\ [][NextWarn]_vars

----------------------------------------------------------------------------
(* Notions the properties are stated with, defined on positions of the     *)
(* coordinate sequence and independently of the operators above.           *)

FrameValues == DimValues(ds, "frame")

HasDurationMapping == mapping = DurationMapping

\* The 1-based position of a coordinate value of dimension 'frame'.
PosOf(v) == CHOOSE p \in 1..Len(FrameValues) : FrameValues[p] = v

\* Every event bound is a coordinate value of the mapped dimension.
BoundsAreCoordinates(rows) ==
    \A i \in 1..Len(rows) :
        /\ rows[i].start_frame \in Range(FrameValues)
        /\ rows[i].end_frame \in Range(FrameValues)

\* The positions of the inclusive positional span of row i.
SpanOf(rows, i) == PosOf(rows[i].start_frame)..PosOf(rows[i].end_frame)

\* The positions no event's span covers.
Uncovered(rows) ==
    {p \in 1..Len(FrameValues) : \A i \in 1..Len(rows) : p \notin SpanOf(rows, i)}

\* Some position lies in the spans of two events.
SpansOverlap(rows) ==
    \E i, j \in 1..Len(rows) : i < j /\ SpanOf(rows, i) \cap SpanOf(rows, j) # {}

\* The maximal runs of consecutive uncovered positions, in coordinate order,
\* each as <<first coordinate, last coordinate>>.
RunFirsts(U) == SortedSeq({a \in U : (a - 1) \notin U})
RunLast(U, a) == CHOOSE b \in U : b >= a /\ (a..b) \subseteq U /\ (b + 1) \notin U
UncoveredRuns(rows) ==
    LET U == Uncovered(rows)
    IN  [k \in 1..Len(RunFirsts(U)) |->
            <<FrameValues[RunFirsts(U)[k]], FrameValues[RunLast(U, RunFirsts(U)[k])]>>]

\* The columns of a row, without its row label.
ColumnsOf(r) == [c \in Columns |-> r[c]]

----------------------------------------------------------------------------
(* Properties.                                                             *)

\* C1: whatever the initial coverage of an events DataFrame with a duration
\* mapping (gaps, overlapping events, any number of events), once fill_gaps
\* has been called df_contains_gaps returns False.
C1_NoGapsAfterFillGaps ==
    (op = "fill_gaps" /\ HasDurationMapping /\ BoundsAreCoordinates(df_pre))
        => df_contains_gaps(FrameValues, df, mapping) = "False"

\* What holds of the code for C1: a fill_gaps that returns leaves no gaps.
C1_NoGapsWhenFillGapsReturns ==
    (op = "fill_gaps" /\ err = "none")
        => df_contains_gaps(FrameValues, df, mapping) = "False"

\* C2: fill_gaps appends exactly one row per maximal run of consecutive
\* uncovered coordinates, with the run's first and last coordinate as start
\* and end, after the original rows and in coordinate order; the original
\* rows keep their order and values; no uncovered coordinate, no row.
C2_OneRowPerUncoveredRun ==
    (op = "fill_gaps" /\ HasDurationMapping /\ BoundsAreCoordinates(df_pre))
        => LET runs == UncoveredRuns(df_pre)
               n == Len(df_pre)
           IN  /\ Len(df) = n + Len(runs)
               /\ \A i \in 1..n : ColumnsOf(df[i]) = ColumnsOf(df_pre[i])
               /\ \A k \in 1..Len(runs) :
                    /\ df[n + k].start_frame = runs[k][1]
                    /\ df[n + k].end_frame = runs[k][2]

\* What holds of the code for C2: the same, when fill_gaps returns.
C2_OneRowPerUncoveredRunWhenReturns ==
    (op = "fill_gaps" /\ err = "none")
        => LET runs == UncoveredRuns(df_pre)
               n == Len(df_pre)
           IN  /\ Len(df) = n + Len(runs)
               /\ \A i \in 1..n : ColumnsOf(df[i]) = ColumnsOf(df_pre[i])
               /\ \A k \in 1..Len(runs) :
                    /\ df[n + k].start_frame = runs[k][1]
                    /\ df[n + k].end_frame = runs[k][2]

\* C3: with a duration mapping and every event bound a coordinate,
\* df_contains_gaps returns False exactly when every coordinate lies in the
\* inclusive positional span of some event, and True as soon as one
\* coordinate is left uncovered.
C3_GapsIffUncoveredCoordinate ==
    (op = "df_contains_gaps" /\ HasDurationMapping /\ BoundsAreCoordinates(df))
        => /\ err = "none"
           /\ result = "False" <=> Uncovered(df) = {}
           /\ result = "True" <=> Uncovered(df) # {}

\* C3 witness: df_contains_gaps has returned True for two events that leave
\* exactly one coordinate uncovered.
C3_Witness ==
    /\ op = "df_contains_gaps"
    /\ HasDurationMapping
    /\ BoundsAreCoordinates(df)
    /\ Len(df) = 2
    /\ Cardinality(Uncovered(df)) = 1
    /\ result = "True"

\* C4: df_contains_overlapping_events returns True if and only if, with the
\* events sorted by the start column, some pair of consecutive events has
\* nextStart - currentEnd < 1; every consecutive pair is examined.
C4_OverlapIffSomeConsecutivePair ==
    (op = "df_contains_overlapping_events" /\ HasDurationMapping)
        => LET sorted == sort_values(df, "start_frame")
               some_pair == \E i \in 1..(Len(sorted) - 1) :
                                sorted[i + 1].start_frame - sorted[i].end_frame < 1
           IN  /\ err = "none"
               /\ result = "True" <=> some_pair

\* C5: when the events have overlapping spans or gaps, groupby_events sets
\* every event's group to exactly the positions of that event's inclusive
\* positional span.
C5_GroupsAreSpans ==
    ( /\ op = "groupby_events"
      /\ args = NoArgs
      /\ HasDurationMapping
      /\ Len(df) >= 1
      /\ BoundsAreCoordinates(df)
      /\ ~HasDuplicates([i \in 1..Len(df) |-> df[i].start_frame])
      /\ (SpansOverlap(df) \/ Uncovered(df) # {}) )
        => /\ err = "none"
           /\ \A i \in 1..Len(df) :
                /\ df[i].Index + 1 <= Len(groups.group_indices)
                /\ {p + 1 : p \in Range(groups.group_indices[df[i].Index + 1])}
                        = SpanOf(df, i)

----------------------------------------------------------------------------
(* Properties of sel.                                                      *)

\* The last call was sel with one constraint, on a column of the events.
OneEventConstraint ==
    /\ op = "sel"
    /\ has_events
    /\ Len(args.indexers) = 1
    /\ args.indexers[1][1] \in Columns

SelKey == args.indexers[1][1]
SelValue == args.indexers[1][2]

\* The rows of rows at the positions where keep is TRUE, in their order.
RowsAt(rows, keep) ==
    LET at == SelectSeq([i \in 1..Len(rows) |-> i], LAMBDA i : keep[i])
    IN  [k \in 1..Len(at) |-> rows[at[k]]]

\* C6: an event-column constraint with a single value replaces the events
\* DataFrame by exactly the rows whose column equals the value, in their
\* original order.
C6_SingleValueKeepsEqualRows ==
    (OneEventConstraint /\ SelValue.kind = "scalar")
        => /\ err = "none"
           /\ df = SelectSeq(df_pre, LAMBDA r : r[SelKey] = SelValue.elems[1])

\* C6 witness: a single value has kept the second of two rows.
C6_Witness ==
    /\ OneEventConstraint
    /\ SelValue.kind = "scalar"
    /\ Len(df_pre) = 2
    /\ df = <<df_pre[2]>>

\* C7: a container (list, tuple, set) that is no boolean mask of the events
\* replaces the events DataFrame by exactly the rows whose column value is a
\* member of the container.
C7_ContainerKeepsMembers ==
    (OneEventConstraint /\ SelValue.kind \in {"list", "tuple"})
        => /\ err = "none"
           /\ df = SelectSeq(df_pre, LAMBDA r : r[SelKey] \in Range(SelValue.elems))

\* What holds of the code for C7: the same for a list or a set.
C7_ListKeepsMembers ==
    (OneEventConstraint /\ SelValue.kind = "list")
        => /\ err = "none"
           /\ df = SelectSeq(df_pre, LAMBDA r : r[SelKey] \in Range(SelValue.elems))

\* C8: a sequence of bools, one per row of the events, replaces the events
\* DataFrame by exactly the rows at which it is True.
C8_MaskKeepsTrueRows ==
    (OneEventConstraint /\ SelValue.kind = "mask" /\ Len(SelValue.bools) = Len(df_pre))
        => /\ err = "none"
           /\ df = RowsAt(df_pre, SelValue.bools)

\* The callables of the model, element by element.
CallableHolds(value, x) ==
    IF value.fn = "eq" THEN x = value.elems[1] ELSE x > value.elems[1]

\* C9: a callable is invoked on the column of the current events; when it
\* gives one bool per row, the events DataFrame becomes exactly the rows at
\* which the bool is True.
C9_CallableKeepsTrueRows ==
    (OneEventConstraint /\ SelValue.kind = "callable" /\ SelValue.fn \in {"eq", "gt"})
        => /\ err = "none"
           /\ df = SelectSeq(df_pre, LAMBDA r : CallableHolds(SelValue, r[SelKey]))

\* C9 witness: lambda s: s > c has kept one of two rows.
C9_Witness ==
    /\ OneEventConstraint
    /\ SelValue.kind = "callable"
    /\ SelValue.fn = "gt"
    /\ Len(df_pre) = 2
    /\ Len(df) = 1

\* C10: when every constraint key names a dimension of the Dataset and none
\* a column of the events, sel returns what Dataset.sel returns for the
\* Dataset the accessor holds, with the same constraints and options, and
\* the events are unchanged.
C10_DimensionsOnlyIsDatasetSel ==
    ( /\ op = "sel"
      /\ \A i \in 1..Len(args.indexers) :
            /\ args.indexers[i][1] \in Dims(ds_pre)
            /\ args.indexers[i][1] \notin Columns )
        => LET prim == DatasetSel(ds_pre, args.indexers, args.method,
                                  args.tolerance, args.drop)
           IN  /\ err = prim.err
               /\ ds = prim.ds
               /\ result = (IF prim.err = "none" THEN "Dataset" ELSE "None")
               /\ df = df_pre

\* C10 witness: with events loaded, sel(frame=v, method='nearest', drop=True)
\* has returned the Dataset without the coordinate of frame.
C10_Witness ==
    /\ op = "sel"
    /\ has_events
    /\ Len(df) = 2
    /\ Len(args.indexers) = 1
    /\ args.indexers[1][1] = "frame"
    /\ args.method = "nearest"
    /\ args.drop
    /\ err = "none"
    /\ ds.frame.kind = "dropped"

\* The keys of the last sel.
SelKeys == {args.indexers[i][1] : i \in 1..Len(args.indexers)}

\* C11: a sel whose keys all name columns of the events and no dimension
\* leaves the Dataset (dimensions, coordinates) as it was; it returns the
\* Dataset unless a tuple value makes the comparison fail.
C11_EventsOnlyLeavesDataset ==
    ( /\ op = "sel"
      /\ has_events
      /\ SelKeys # {}
      /\ SelKeys \subseteq Columns \ (Dims(ds_pre) \cup DataVars) )
        => /\ ds = ds_pre
           /\ (\A i \in 1..Len(args.indexers) : args.indexers[i][2].kind # "tuple")
                => (err = "none" /\ result = "Dataset")

\* C11 witness: sel({'start_frame': [1]}) on a Dataset of dimension 'frame'
\* has dropped a row of the events and left the Dataset alone.
C11_Witness ==
    /\ op = "sel"
    /\ has_events
    /\ SelKeys = {"start_frame"}
    /\ "frame" \in Dims(ds_pre)
    /\ args.indexers[1][2].kind = "list"
    /\ Len(df) < Len(df_pre)
    /\ err = "none"
    /\ ds = ds_pre

\* C12: a key that names a dimension and a column of the events is applied
\* to both: the Dataset is selected along the dimension with the value and
\* the events are filtered on the column with the same value.
C12_KeyOfBothAppliesToBoth ==
    ( /\ op = "sel"
      /\ has_events
      /\ Len(args.indexers) = 1
      /\ SelKey \in Columns \cap Dims(ds_pre) )
        => LET prim == DatasetSel(ds_pre, args.indexers, args.method,
                                  args.tolerance, args.drop)
           IN  /\ err = prim.err
               /\ err = "none" =>
                    /\ ds = prim.ds
                    /\ df = SelectSeq(df_pre, LAMBDA r : r[SelKey] \in Range(SelValue.elems))

\* C12 witness: sel({'start_frame': 1}) on a Dataset of dimension
\* 'start_frame' has selected the Dataset and dropped a row of the events.
C12_Witness ==
    /\ op = "sel"
    /\ has_events
    /\ Len(args.indexers) = 1
    /\ SelKey \in Columns \cap Dims(ds_pre)
    /\ SelValue.kind = "scalar"
    /\ err = "none"
    /\ ds # ds_pre
    /\ Len(df_pre) = 2
    /\ Len(df) = 1

\* C13: a key that names neither a dimension or coordinate of the Dataset
\* nor a column of the loaded events makes sel raise KeyError listing every
\* such key, and changes neither the Dataset nor the events.
C13_UnknownKeysAllListed ==
    LET unknown == SelectSeq([i \in 1..Len(args.indexers) |-> args.indexers[i][1]],
                             LAMBDA k : k \notin Dims(ds_pre)
                                        /\ ~(has_events /\ k \in Columns))
    IN  (op = "sel" /\ unknown # <<>>)
            => /\ err = "KeyError"
               /\ err_args = unknown
               /\ ds = ds_pre
               /\ df = df_pre

\* What holds of the code for C13: the same, a data variable counting as a
\* known key.
C13_UnknownKeysButDataVars ==
    LET unknown == SelectSeq([i \in 1..Len(args.indexers) |-> args.indexers[i][1]],
                             LAMBDA k : k \notin Dims(ds_pre) \cup DataVars
                                        /\ ~(has_events /\ k \in Columns))
    IN  (op = "sel" /\ unknown # <<>>)
            => /\ err = "KeyError"
               /\ err_args = unknown
               /\ ds = ds_pre
               /\ df = df_pre

----------------------------------------------------------------------------
(* Properties of the store.                                                *)

\* The columns a value of the mapping refers to, lists and tuples flattened.
RECURSIVE ColumnsReferenced(_)
ColumnsReferenced(v) ==
    IF v.kind = "list"
    THEN UNION {ColumnsReferenced(v.items[i]) : i \in 1..Len(v.items)}
    ELSE Range(v.cols)

\* The keys of a mapping, and the positions of its tuple entries.
KeysOf(m) == {m[i][1] : i \in 1..Len(m)}
PairsOf(m) == {i \in 1..Len(m) : m[i][2].kind = "tuple"}

\* The last call gave a mapping to the setter, directly or through load.
MappingGiven ==
    \/ op = "ds_df_mapping" /\ has_events
    \/ op = "load" /\ args.ds_df_mapping # <<>>

\* C14: setting the mapping, directly or through load, raises ValueError
\* whenever a referenced column is no column of the events or a key is no
\* dimension or coordinate of the Dataset, and stores the mapping unchanged
\* whenever every reference resolves.
C14_MappingRejectedOrStored ==
    MappingGiven
        => LET m == args.ds_df_mapping
               resolves ==
                    /\ \A i \in 1..Len(m) : ColumnsReferenced(m[i][2]) \subseteq Columns
                    /\ KeysOf(m) \subseteq DOMAIN ds
           IN  IF resolves THEN err = "none" /\ mapping = m
               ELSE err = "ValueError"

\* What holds of the code for C14: the same, the data variables counting
\* with the coordinates.
C14_MappingRejectedOrStoredWithDataVars ==
    MappingGiven
        => LET m == args.ds_df_mapping
               resolves ==
                    /\ \A i \in 1..Len(m) : ColumnsReferenced(m[i][2]) \subseteq Columns
                    /\ KeysOf(m) \subseteq DOMAIN ds \cup DataVars
           IN  IF resolves THEN err = "none" /\ mapping = m
               ELSE err = "ValueError"

\* C15: a load that fails because the mapping is invalid has changed
\* nothing: the events (attached or not) and the mapping are what they were.
C15_FailedLoadChangesNothing ==
    [][(op' = "load" /\ err' # "none")
            => (has_events' = has_events /\ df' = df /\ mapping' = mapping)]_vars

\* What holds of the code for C15: a failed load leaves the mapping alone.
C15_FailedLoadKeepsMapping ==
    [][(op' = "load" /\ err' # "none") => mapping' = mapping]_vars

\* C16 as stated: duration_mapping fails when the stored mapping has no
\* tuple entry, fails when it has more than one, and returns the entry when
\* it has exactly one.
C16_FailsUnlessOnePair ==
    (op = "duration_mapping" /\ mapping # <<>>)
        => /\ Cardinality(PairsOf(mapping)) # 1 => err # "none"
           /\ Cardinality(PairsOf(mapping)) = 1
                => (err = "none" /\ \E i \in PairsOf(mapping) : entry = <<mapping[i]>>)

\* C16, amended: duration_mapping returns None when the stored mapping has
\* no tuple entry, raises ValueError when it has more than one, returns the
\* entry when it has exactly one; without a stored mapping it raises
\* TypeError.
C16_NoneWithoutPair ==
    op = "duration_mapping"
        => /\ mapping = <<>> => err = "TypeError"
           /\ (mapping # <<>> /\ PairsOf(mapping) = {})
                => (err = "none" /\ result = "None" /\ entry = <<>>)
           /\ Cardinality(PairsOf(mapping)) > 1 => err = "ValueError"
           /\ Cardinality(PairsOf(mapping)) = 1
                => (err = "none" /\ \E i \in PairsOf(mapping) : entry = <<mapping[i]>>)

\* C16 witness: duration_mapping has returned None for {'frame':
\* 'start_frame'}.
C16_Witness ==
    /\ op = "duration_mapping"
    /\ mapping = << <<"frame", MapCol("start_frame")>> >>
    /\ err = "none"
    /\ result = "None"

\* C17: with a stored mapping of simple entries only, df_contains_gaps,
\* df_contains_overlapping_events and fill_gaps raise TypeError and leave the
\* events unchanged.
C17_NoDurationIsTypeError ==
    ( /\ op \in {"df_contains_gaps", "df_contains_overlapping_events", "fill_gaps"}
      /\ mapping # <<>>
      /\ PairsOf(mapping) = {} )
        => /\ err = "TypeError"
           /\ result = "None"
           /\ df = df_pre

\* C17 witness: fill_gaps has raised TypeError on one event that leaves a
\* coordinate uncovered, under {'frame': 'start_frame'}.
C17_Witness ==
    /\ op = "fill_gaps"
    /\ mapping = << <<"frame", MapCol("start_frame")>> >>
    /\ Len(df) = 1
    /\ df[1].end_frame = 1
    /\ err = "TypeError"

\* C18: a load on an accessor that holds events already, and a mapping
\* stored when one is stored already, each warn and then overwrite.
C18_SetAgainWarnsAndOverwrites ==
    [][ /\ (op' = "load" /\ has_events)
            => ("_events" \in warned' /\ has_events')
        /\ (op' \in {"load", "ds_df_mapping"} /\ err' = "none" /\ mapping # <<>>
                /\ args'.ds_df_mapping # <<>>)
            => ("_ds_df_mapping" \in warned' /\ mapping' = args'.ds_df_mapping) ]_vars

\* What holds of the code for C18: the setter of df and the setter of the
\* mapping warn and overwrite; load attaches the events without a warning.
C18_SettersWarnAndOverwrite ==
    [][ /\ (op' = "df" /\ has_events) => ("_events" \in warned' /\ has_events')
        /\ op' = "load" => "_events" \notin warned'
        /\ (op' \in {"load", "ds_df_mapping"} /\ err' = "none" /\ mapping # <<>>
                /\ args'.ds_df_mapping # <<>>)
            => ("_ds_df_mapping" \in warned' /\ mapping' = args'.ds_df_mapping) ]_vars

----------------------------------------------------------------------------
(* Properties of the Dimension Expander.                                   *)

\* The dimensions a mapping associates with a column.
RECURSIVE Mentions(_, _)
Mentions(v, col) ==
    IF v.kind = "list" THEN \E i \in 1..Len(v.items) : Mentions(v.items[i], col)
    ELSE col \in Range(v.cols)

DimsMappedTo(m, col) == {m[i][1] : i \in {j \in 1..Len(m) : Mentions(m[j][2], col)}}

\* The events whose column col holds the value x.
EventsAt(col, x) == {i \in 1..Len(df) : df[i][col] = x}

\* The last call was an expansion by a column of the events that the
\* mapping associates with a dimension.
ExpandedByMappedColumn ==
    /\ op = "expand_to_match_ds"
    /\ args.dimension_matching_col \in Columns
    /\ DimsMappedTo(mapping, args.dimension_matching_col) # {}

\* The array has one entry per coordinate of the mapped dimension; where an
\* event's column col holds the coordinate the entry is what Value gives for
\* that event and, when nothing is filled, every other entry is null.
ArrayHolds(Value(_), exactly) ==
    \E dim \in DimsMappedTo(mapping, args.dimension_matching_col) :
        /\ Len(array.values) = Len(DimValues(ds, dim))
        /\ \A p \in 1..Len(array.values) :
            LET hits == EventsAt(args.dimension_matching_col, DimValues(ds, dim)[p])
            IN  IF hits = {} THEN exactly => array.values[p] = <<>>
                ELSE \E i \in hits : array.values[p] = <<Value(i)>>

RowLabel(i) == df[i].Index

\* C19 as stated: expand_to_match_ds with no fill method and the default
\* value column returns an array with one entry per coordinate of the
\* dimension mapped to the match column, holding the row label of an event
\* where the coordinate is that event's value and null everywhere else.
C19_SparseRowLabels ==
    (ExpandedByMappedColumn /\ args.fill_method = ""
            /\ args.fill_value_col = "event_index")
        => /\ err = "none"
           /\ array.ndim = 1
           /\ ArrayHolds(RowLabel, TRUE)

\* C19, amended: the same for events whose row index has no name and whose
\* values in the match column are distinct.
C19_SparseRowLabelsUnnamedDistinct ==
    (ExpandedByMappedColumn /\ args.fill_method = ""
            /\ args.fill_value_col = "event_index"
            /\ index_name = ""
            /\ \A i, j \in 1..Len(df) :
                    df[i][args.dimension_matching_col] = df[j][args.dimension_matching_col]
                        => i = j)
        => /\ err = "none"
           /\ array.ndim = 1
           /\ ArrayHolds(RowLabel, TRUE)

\* C19 witness: two events that start with 1 and 3 expanded by start_frame
\* over three coordinates or more: labels 0 and 1 and a null between.
C19_Witness ==
    /\ op = "expand_to_match_ds"
    /\ args = [dimension_matching_col |-> "start_frame", fill_method |-> "",
               fill_value_col |-> "event_index"]
    /\ index_name = ""
    /\ Len(df) = 2
    /\ err = "none"
    /\ \E p, q, r \in 1..Len(array.values) :
            array.values[p] = <<0>> /\ array.values[q] = <<>> /\ array.values[r] = <<1>>

\* The value columns of the claim: a column of the events, or the name
\* under which the row labels go (the index name, the default without one).
ValueOf(i) ==
    IF args.fill_value_col \in Columns THEN df[i][args.fill_value_col] ELSE df[i].Index

\* The expansion was asked with a valid value column and distinct values in
\* the match column.
ExpandedWithValidValueColumn ==
    /\ ExpandedByMappedColumn
    /\ args.fill_value_col \in Columns \cup {label_column(index_name, "event_index")}
    /\ \A i, j \in 1..Len(df) :
            df[i][args.dimension_matching_col] = df[j][args.dimension_matching_col]
                => i = j

\* C20: for every valid value column, an ordinary column of the events
\* included, expand_to_match_ds returns a 1-D array with one entry per
\* coordinate of the mapped dimension, named after the value column, whose
\* entry at the coordinate of an event is that event's value in the column.
C20_OneDimensionalForAnyColumn ==
    ExpandedWithValidValueColumn
        => /\ err = "none"
           /\ array.ndim = 1
           /\ array.name = args.fill_value_col
           /\ ArrayHolds(ValueOf, args.fill_method = "")

\* What holds of the code for C20: the same when the row index has a name or
\* the value column is the one of the row labels.
C20_OneDimensionalUnlessDoubled ==
    (ExpandedWithValidValueColumn
            /\ (index_name # "" \/ args.fill_value_col \notin Columns))
        => /\ err = "none"
           /\ array.ndim = 1
           /\ array.name = args.fill_value_col
           /\ ArrayHolds(ValueOf, args.fill_method = "")

----------------------------------------------------------------------------
(* Properties of the Dimension Expander after the Gap Filler.              *)

\* The coordinate values of dimension 'frame' increase.
FrameIncreases == \A p, q \in 1..Len(FrameValues) : p < q => FrameValues[p] < FrameValues[q]

\* The array gives every coordinate the row label of an event of rows whose
\* span contains the coordinate.
LabelsOfSpans(a, rows) ==
    /\ a.ndim = 1
    /\ Len(a.values) = Len(FrameValues)
    /\ \A p \in 1..Len(FrameValues) :
            \E i \in 1..Len(rows) : p \in SpanOf(rows, i) /\ a.values[p] = <<rows[i].Index>>

\* fill_gaps has just returned for events without overlapping spans over
\* increasing coordinates.
FilledWithoutOverlap ==
    /\ op = "fill_gaps"
    /\ err = "none"
    /\ HasDurationMapping
    /\ FrameIncreases
    /\ BoundsAreCoordinates(df)
    /\ ~SpansOverlap(df)

\* C21 as stated: for events without overlap over increasing coordinates,
\* after fill_gaps expand_to_match_ds(start, 'ffill') and
\* expand_to_match_ds(end, 'bfill') return the same array, which gives every
\* coordinate the row label of the one event whose span contains it.
C21_FilledExpansionsAgree ==
    [][(FilledWithoutOverlap /\ op' = "expand_to_match_ds")
            => (err' = "none" /\ LabelsOfSpans(array', df))]_vars

\* C21, amended: the same when the row index of the events has no name once
\* fill_gaps has returned (it has none by default, and none after a gap was
\* filled).
C21_FilledExpansionsAgreeUnnamed ==
    [][(FilledWithoutOverlap /\ index_name = "" /\ op' = "expand_to_match_ds")
            => (err' = "none" /\ LabelsOfSpans(array', df))]_vars

\* C21 witness: an expansion has returned for three events, one of them
\* made by fill_gaps, and the array holds the label of that one.
C21_Witness ==
    /\ op = "expand_to_match_ds"
    /\ err = "none"
    /\ HasDurationMapping
    /\ FrameIncreases
    /\ Len(df) = 3
    /\ \E i \in 1..Len(df) :
            df[i].event_type = "default" /\ <<df[i].Index>> \in Range(array.values)
    /\ LabelsOfSpans(array, df)

----------------------------------------------------------------------------
(* Properties of the Event Grouper's validation and of the sentinel.       *)

\* The match column of the last groupby_events: the start column when both
\* arguments were left out.
GroupedBy == IF args = NoArgs THEN "start_frame" ELSE args.dimension_matching_col

\* groupby_events was called with a duration mapping on events that can be
\* expanded: every bound a coordinate, no value of the match column twice.
GroupbyOnExpandableEvents ==
    /\ op = "groupby_events"
    /\ HasDurationMapping
    /\ Len(df) >= 1
    /\ BoundsAreCoordinates(df)
    /\ GroupedBy \in {"start_frame", "end_frame"}
            => ~HasDuplicates([i \in 1..Len(df) |-> df[i][GroupedBy]])

\* C22: groupby_events raises KeyError for a match column that no entry of
\* the mapping references, and groups by a match column that an entry
\* references.
C22_ReferencedColumnIsGrouped ==
    GroupbyOnExpandableEvents
        => IF DimsMappedTo(mapping, GroupedBy) = {}
           THEN err = "KeyError"
           ELSE err = "none" /\ result = "GroupBy"

\* What holds of the code for C22: the same for an even number of events.
C22_ReferencedColumnIsGroupedEven ==
    (GroupbyOnExpandableEvents /\ Len(df) % 2 = 0)
        => IF DimsMappedTo(mapping, GroupedBy) = {}
           THEN err = "KeyError"
           ELSE err = "none" /\ result = "GroupBy"

\* What holds of the code for C22 whatever the events: an unreferenced match
\* column is a KeyError, a referenced one never.
C22_KeyErrorIffUnreferenced ==
    (op = "groupby_events" /\ HasDurationMapping)
        => (err = "KeyError" <=> DimsMappedTo(mapping, GroupedBy) = {})

\* No pair of consecutive events, in the order of their starts, has
\* nextStart - currentEnd < 1.
NoConsecutiveOverlap(rows) ==
    LET sorted == sort_values(rows, "start_frame")
    IN  \A i \in 1..(Len(sorted) - 1) :
            sorted[i + 1].start_frame - sorted[i].end_frame >= 1

\* C25: df_contains_overlapping_events compares the last event with a
\* sentinel of positive infinity: for events without such a pair, a single
\* event and an odd number of events included, it returns False and raises
\* nothing.
C25_SentinelGivesFalse ==
    ( /\ op = "df_contains_overlapping_events"
      /\ HasDurationMapping
      /\ Len(df) >= 1
      /\ NoConsecutiveOverlap(df) )
        => (err = "none" /\ result = "False")

\* What holds of the code for C25: False for an even number of events
\* without such a pair, AttributeError for an odd number.
C25_FalseWhenEvenElseAttributeError ==
    ( /\ op = "df_contains_overlapping_events"
      /\ HasDurationMapping
      /\ NoConsecutiveOverlap(df) )
        => IF Len(df) % 2 = 0 THEN err = "none" /\ result = "False"
           ELSE err = "AttributeError"

----------------------------------------------------------------------------
(* Properties of the rows fill_gaps makes.                                 *)

\* The names the last fill_gaps was given for its extra columns.
ExtraNames == {args.extra_col_val_pairs[j][1] : j \in 1..Len(args.extra_col_val_pairs)}

\* fill_gaps has returned, and the names it was given are names of
\* different columns, none of them a column of the duration.
FilledWithDistinctNames ==
    /\ op = "fill_gaps"
    /\ err = "none"
    /\ HasDurationMapping
    /\ args.event_type_col_name \notin ExtraNames \cup {"start_frame", "end_frame"}
    /\ ExtraNames \cap {"start_frame", "end_frame"} = {}

----------------------------------------------------------------------------
(* The scenario of the coordinates 0, 2, ..., 10.                          *)

\* fill_gaps has left the two events and one more row, spanning (4, 6).
OneRowFourToSix ==
    /\ err = "none"
    /\ Len(df) = 3
    /\ \A i \in 1..2 : \A c \in Columns : df[i][c] = df_pre[i][c]
    /\ df[3].start_frame = 4
    /\ df[3].end_frame = 6

\* C24 as stated: with events {start: [1, 8], end: [2, 10]} over the
\* coordinates [0, 2, 4, 6, 8, 10], fill_gaps yields one row more, spanning
\* (4, 6).
C24_StartOneYieldsFourToSix ==
    (op = "fill_gaps" /\ df_pre = DataFrame(<< <<1, 2>>, <<8, 10>> >>))
        => OneRowFourToSix

\* C24, amended: with events {start: [0, 8], end: [2, 10]} fill_gaps yields
\* one row more, spanning (4, 6); with start 1, which is no coordinate, it
\* raises ValueError and leaves the events as they are.
C24_StartZeroYieldsFourToSix ==
    /\ (op = "fill_gaps" /\ df_pre = DataFrame(<< <<0, 2>>, <<8, 10>> >>))
            => OneRowFourToSix
    /\ (op = "fill_gaps" /\ df_pre = DataFrame(<< <<1, 2>>, <<8, 10>> >>))
            => (err = "ValueError" /\ df = df_pre)

\* C24 witness: fill_gaps has been called on {start: [0, 8], end: [2, 10]}
\* and has left three rows.
C24_Witness ==
    /\ op = "fill_gaps"
    /\ ds = ScenarioDataset
    /\ df_pre = DataFrame(<< <<0, 2>>, <<8, 10>> >>)
    /\ Len(df) = 3

----------------------------------------------------------------------------
(* Successive selections.  The selection of a Dataset and of the events is *)
(* restated on the labels asked for, without the operators of sel.         *)

\* The value a dictionary gives to a key.
ValueAt(indexers, k) == indexers[CHOOSE i \in 1..Len(indexers) : indexers[i][1] = k][2]

\* d.sel(c) for the constraints c of call a that are dimensions of d, with
\* exact labels: a label leaves a scalar coordinate, a list its labels.
Picked(d, a) ==
    [k \in DOMAIN d |->
        IF k \in Dims(d) /\ k \in {a.indexers[i][1] : i \in 1..Len(a.indexers)}
        THEN IF ValueAt(a.indexers, k).kind = "scalar"
             THEN [kind |-> IF a.drop THEN "dropped" ELSE "scalar",
                   vals |-> ValueAt(a.indexers, k).elems]
             ELSE [kind |-> "dim", vals |-> ValueAt(a.indexers, k).elems]
        ELSE d[k]]

\* A row satisfies a constraint: it has the value, or one of the values.
Satisfies(row, c) ==
    IF c[2].kind = "scalar" THEN row[c[1]] = c[2].elems[1]
    ELSE row[c[1]] \in Range(c[2].elems)

\* The rows that satisfy every constraint of call a on a column.
RowsSatisfying(rows, a) ==
    SelectSeq(rows, LAMBDA r :
        \A i \in 1..Len(a.indexers) :
            a.indexers[i][1] \in Columns => Satisfies(r, a.indexers[i]))

\* Every constraint of call a on a column is a value or a list of values.
PlainFilters(a) ==
    \A i \in 1..Len(a.indexers) :
        a.indexers[i][1] \in Columns => a.indexers[i][2].kind \in {"scalar", "list"}

\* C26: a sel that follows a sel on the same accessor selects on the
\* Dataset the first one left: for dimension constraints the result is
\* ds.sel(c1).sel(c2), and the events are those of the table the first call
\* left that satisfy the constraints of the second.
C26_SecondSelComposes ==
    [][ (op = "sel" /\ err = "none" /\ op' = "sel" /\ err' = "none"
            /\ PlainFilters(args) /\ PlainFilters(args'))
        => /\ ds_pre' = ds
           /\ ds' = Picked(Picked(ds_pre, args), args')
           /\ df' = RowsSatisfying(RowsSatisfying(df_pre, args), args') ]_vars

\* C26 witness: a second sel has returned a Dataset that differs from the
\* selection of the loaded Dataset by the second constraints alone.
C26_Witness ==
    /\ op = "sel"
    /\ err = "none"
    /\ has_events
    /\ ds_pre # SelDataset
    /\ ds # ds_pre
    /\ ds # Picked(SelDataset, args)

\* C29: a sel leaves rows that were there before it, with their labels and
\* in their order, whether it returns or raises.
C29_SelOnlyShrinks ==
    [][ op' = "sel" =>
            /\ df' = SelectSeq(df, LAMBDA r : r \in Range(df'))
            /\ \A i, j \in 1..Len(df') : i < j => df'[i].Index < df'[j].Index ]_vars

\* C29 witness: a sel on a table an earlier sel had shrunk to the row with
\* label 1 has kept that row with that label.
C29_Witness ==
    /\ op = "sel"
    /\ Len(df_pre) = 1
    /\ df_pre[1].Index = 1
    /\ df = df_pre
    /\ Len(args.indexers[1][2].elems) >= 1
    /\ args.indexers[1][1] \in Columns

\* sel has been called with two constraints on columns of the events.
TwoColumnConstraints ==
    /\ op = "sel"
    /\ has_events
    /\ Len(args.indexers) = 2
    /\ \A i \in 1..2 : args.indexers[i][1] \in Columns

\* C27 as stated: two constraints on columns, each a value or a container
\* of values, leave exactly the rows that satisfy both, and so does the call
\* with them in the other order.
C27_SeveralConstraintsConjoin ==
    TwoColumnConstraints =>
        /\ err = "none"
        /\ df = RowsSatisfying(df_pre, args)
        /\ filter_all(df_pre, <<args.indexers[2], args.indexers[1]>>).df = df

\* C27 for values and lists only: the rows that satisfy both are left, in
\* either order of the constraints.
C27_PlainConstraintsConjoin ==
    (TwoColumnConstraints /\ PlainFilters(args)) =>
        /\ err = "none"
        /\ df = RowsSatisfying(df_pre, args)
        /\ filter_all(df_pre, <<args.indexers[2], args.indexers[1]>>).df = df

----------------------------------------------------------------------------
(* The double-set warnings.                                                *)

\* C28 as stated: sel and fill_gaps emit no double-set warning, and any
\* later setting of events that are present, or of a mapping that is
\* present, emits it.
C28_SuppressionIsConfined ==
    [][ /\ op' \in {"sel", "fill_gaps"} => warned' = {}
        /\ (op' = "df" /\ has_events) => "_events" \in warned'
        /\ (op' = "ds_df_mapping" /\ mapping # <<>>) => "_ds_df_mapping" \in warned' ]_vars

\* C28 for calls that return: after a sel that filtered the events and
\* returned, and after a fill_gaps that returned, the next setting of
\* present events or of a present mapping emits the warning.
C28_WarnsAfterReturn ==
    [][ (/\ err = "none"
         /\ \/ op = "fill_gaps"
            \/ op = "sel" /\ \E i \in 1..Len(args.indexers) : args.indexers[i][1] \in Columns)
        => /\ (op' = "df" /\ has_events) => "_events" \in warned'
           /\ (op' = "ds_df_mapping" /\ mapping # <<>>) => "_ds_df_mapping" \in warned' ]_vars

\* C28 for a sel that raised in a filter step: the next setting of present
\* events or of a present mapping emits no warning.
C28_SilentAfterRaise ==
    [][ (op = "sel" /\ err \in CompareErrors \cup CallableErrors)
        => (op' \in {"df", "ds_df_mapping"} => warned' = {}) ]_vars

----------------------------------------------------------------------------
(* The duration pair inside a list of the mapping.                         *)

\* The stored mapping has one entry, a list that holds the pair of the
\* columns of start and end.
PairIsNested ==
    /\ Len(mapping) = 1
    /\ mapping[1][2].kind = "list"
    /\ \E k \in 1..Len(mapping[1][2].items) :
            mapping[1][2].items[k] = MapTuple("start_frame", "end_frame")

\* C30: with the pair inside a list under 'frame', expand_to_match_ds by a
\* column of the pair returns an array over the coordinates of 'frame' (one
\* entry each; with no fill method an entry is set where an event has the
\* coordinate for its value) unless the values of the column repeat, while
\* df_contains_gaps, df_contains_overlapping_events, fill_gaps and
\* groupby_events raise TypeError and leave the events as they are.
C30_NestedPairExpandsButIsNoDuration ==
    PairIsNested =>
        /\ op \in {"df_contains_gaps", "df_contains_overlapping_events",
                   "fill_gaps", "groupby_events"}
                => (err = "TypeError" /\ result = "None" /\ df = df_pre)
        /\ op = "expand_to_match_ds"
                => /\ err \in {"none", "ValueError"}
                   /\ err = "ValueError" <=>
                        \E i, j \in 1..Len(df) :
                            i # j /\ df[i][args.dimension_matching_col]
                                        = df[j][args.dimension_matching_col]
                   /\ err = "none" =>
                        /\ mapping[1][1] = "frame"
                        /\ Len(array.values) = Len(ds.frame.vals)
                        /\ args.fill_method = "" =>
                            \A p \in 1..Len(ds.frame.vals) :
                                array.values[p] # <<>> <=>
                                    \E i \in 1..Len(df) :
                                        df[i][args.dimension_matching_col] = ds.frame.vals[p]

\* C30 witness: under the nested pair expand_to_match_ds has returned an
\* array with an entry that is set, and groupby_events has raised TypeError.
C30_Witness ==
    /\ PairIsNested
    /\ \/ op = "groupby_events" /\ err = "TypeError" /\ Len(df) = 2
       \/ /\ op = "expand_to_match_ds"
          /\ err = "none"
          /\ \E p \in 1..Len(array.values) : array.values[p] # <<>>

====
